---- MODULE Spec2Model ----
(***************************************************************************)
(* DocuChat AI: the RAG pipeline.                                          *)
(*                                                                         *)
(* Spec: one request to POST /api/chat (src/app/api/chat/route.ts):        *)
(* request validation, retrieveChunks (query embedding, strict vector      *)
(* search, fallback vector search, merge), the evidence gate, and the      *)
(* custom ReadableStream whose start() handler relays the provider's       *)
(* output.                                                                 *)
(* MergeSpec: the merge/dedupe/sort/limit step of retrieveChunks on its    *)
(* own, with the final cap as configured by the environment.               *)
(*                                                                         *)
(* EmbedSpec: one call of createHuggingFaceEmbeddings: batches, groups of  *)
(* concurrent batch calls, retries (src/lib/pdf/saveEmbeddings.ts).        *)
(* IngestSpec: one request to POST /api/process-pdf                        *)
(* (src/app/api/process-pdf/route.ts): validation, chunking, embedding,    *)
(* document insert, saveEmbeddings.  SaveSpec: one call of saveEmbeddings. *)
(* ChunkSpec: chunkText (src/lib/pdf/chunkText.ts) followed by             *)
(* approximatePagesForChunks (src/lib/analytics/analyzr.ts).               *)
(*                                                                         *)
(* PromptSpec: one call of buildSystemPrompt                               *)
(* (src/lib/buildSystemPrompt.ts): normalisation, per-chunk truncation and *)
(* the assembly of the context block under a budget.                       *)
(*                                                                         *)
(* TimedSpec: the two timed calls of retrieveChunks: withTimeout around    *)
(* getEmbedding (src/unnamed/part_004) and withTimeoutPromise              *)
(* (src/lib/withTimeoutPromise.ts) around the strict vector search.        *)
(*                                                                         *)
(* Each specification leaves the variables of the other components at      *)
(* rest.                                                                   *)
(*                                                                         *)
(* Similarities are integers in units of 1e-5 (35000 is 0.35).  Fragment   *)
(* contents are represented by their length in characters.                 *)
(***************************************************************************)
EXTENDS Integers, Sequences, FiniteSets, TLC

VARIABLES
    req,        \* the parsed request body
    pc,         \* position of the POST handler
    chunks1,    \* retrieveChunks: normalised strict-tier rows (local)
    chunks,     \* the value retrieveChunks returned
    calls,      \* number of upstream calls issued, per kind
    settled,    \* how each awaited upstream call of retrieveChunks settled
    storeOrder, \* ids of the strict-tier rows, in the order the store sent them
    response,   \* what POST returned to the caller
    ctrl,       \* state of customStream as seen by its controller
    out,        \* the writes the controller accepted, in order
    spc,        \* position of customStream.start
    reader,     \* the provider reader held by start()
    releases,   \* number of reader.cancel() invocations
    pending,    \* settled result of the outstanding reader.read()
    produced    \* number of chunks the provider produced so far

\* the merge step of retrieveChunks
VARIABLES
    mpc,        \* "off", "in" (both tiers normalised), "out" (merged)
    mIn,        \* chunks1, chunks2 and the value of MATCH_COUNT_FINAL
    mOut        \* the value returned

\* one call of createHuggingFaceEmbeddings
VARIABLES
    epc,        \* "off", "called", "running", "resolved", "rejected"
    eOpts,      \* n (number of input texts), batchSize, concurrency, maxRetries, normalize
    eWave,      \* index of the wave (group of batches) being awaited
    eBatch,     \* per batch: state, attempt counter, calls issued, last response
    eOutputs,   \* the outputs array
    eResult     \* the array the call resolved with

\* one request to POST /api/process-pdf, and the call of saveEmbeddings
VARIABLES
    ipc,        \* position of the POST handler
    iFile,      \* the uploaded file
    iSteps,     \* the validator's steps executed so far, in order
    iChunks,    \* number of chunks chunkText returned
    iEmb,       \* the embeddings, each by its vector's length
    iEmbedCalls,\* number of calls of createHuggingFaceEmbeddings (history)
    iResp,      \* what POST returned to the caller
    documents,  \* rows of pdf_documents created by this request
    svpc,       \* saveEmbeddings: "off", "called", "inflight", "returned", "threw"
    sRows,      \* saveEmbeddings: rows, each by the length of its embedding
    sBatchSize, \* saveEmbeddings: batchSize
    sNext,      \* saveEmbeddings: i, the number of rows handed to earlier inserts
    sInserts,   \* number of insert calls issued on pdf_chunks
    sPersisted  \* rows of pdf_chunks persisted

\* one call of chunkText followed by approximatePagesForChunks
VARIABLES
    cpc,        \* "off", "split" (the splitter returned), "chunked", "paged"
    cIn,        \* the text, the splitter's output and numPages
    cOut        \* the chunks returned

\* one call of buildSystemPrompt
VARIABLES
    ppc,        \* "off", "called", "returned"
    pIn,        \* chunks and opts
    pOut        \* the context block assembled, with how it was assembled

\* the timed calls of retrieveChunks: the query embedding and the strict search
VARIABLES
    tpc,        \* retrieveChunks: "off", "called", "embedding", "strict", "returned", "threw"
    tTimeout,   \* EMBEDDING_TIMEOUT_MS as configured by the environment
    tNow,       \* milliseconds since retrieveChunks was called
    tTimers,    \* per timer: its state and its deadline
    tCalls,     \* per underlying network call: how far it got
    tAborted,   \* signal.aborted of withTimeout's controller
    tGet,       \* the promise getEmbedding returned
    tErr        \* the error retrieveChunks threw, and (history) what caused it

queryVars == <<req, pc, chunks1, chunks, calls, settled, storeOrder, response,
               ctrl, out, spc, reader, releases, pending, produced>>

mergeVars == <<mpc, mIn, mOut>>

embedVars == <<epc, eOpts, eWave, eBatch, eOutputs, eResult>>

ingestVars == <<ipc, iFile, iSteps, iChunks, iEmb, iEmbedCalls, iResp, documents,
                svpc, sRows, sBatchSize, sNext, sInserts, sPersisted>>

chunkVars == <<cpc, cIn, cOut>>

promptVars == <<ppc, pIn, pOut>>

timedVars == <<tpc, tTimeout, tNow, tTimers, tCalls, tAborted, tGet, tErr>>

vars == <<queryVars, mergeVars, embedVars, ingestVars, chunkVars, promptVars,
          timedVars>>

\* the variables that a request to /api/chat leaves alone
notQueryVars ==
    <<mergeVars, embedVars, ingestVars, chunkVars, promptVars, timedVars>>

notMergeVars ==
    <<queryVars, embedVars, ingestVars, chunkVars, promptVars, timedVars>>

notEmbedVars ==
    <<queryVars, mergeVars, ingestVars, chunkVars, promptVars, timedVars>>

notIngestVars ==
    <<queryVars, mergeVars, embedVars, chunkVars, promptVars, timedVars>>

notChunkVars ==
    <<queryVars, mergeVars, embedVars, ingestVars, promptVars, timedVars>>

notPromptVars ==
    <<queryVars, mergeVars, embedVars, ingestVars, chunkVars, timedVars>>

notTimedVars == <<queryVars, mergeVars, embedVars, ingestVars, chunkVars, promptVars>>

-----------------------------------------------------------------------------
(* Bounds of the model *)

NumIds == 3          \* fragment ids the store may return
MaxRows == 2         \* rows in one vector-search response
MaxChunks == 2       \* chunks the provider produces in one generation
SmallCap == 2        \* a value of MATCH_COUNT_FINAL that the merged set can exceed
MaxTexts == 3        \* input texts of one batch embedding
MaxBatchSize == 2    \* largest value of opts.batchSize
MaxConcurrency == 2  \* largest value of opts.concurrency
MaxRetriesOpt == 1   \* largest value of opts.maxRetries
MaxSaveRows == 3     \* rows of a small call of saveEmbeddings
MaxTextLen == 4      \* characters of the text given to chunkText
MaxPieces == 3       \* chunks the splitter returns
MaxNumPages == 3     \* pages of the document given to the page mapping
MaxPromptChunks == 2 \* chunks given to buildSystemPrompt

(* Program constants *)

MIN_SIMILARITY == 35000
MATCH_COUNT_FINAL == 12
ExcerptChars == 200

Ids == 1..NumIds

\* similarity values a row may carry as a number: 0.2, 0.34996, 0.6
Sims == {20000, 34996, 60000}

PageOf(id) == ((id - 1) % 2) + 1
ContentLenOf(id) == 150 + 50 * ((id - 1) % 3)

-----------------------------------------------------------------------------
(* Sequence helpers *)

SeqsUpTo(S, n) == UNION {[1..k -> S] : k \in 0..n}

Take(s, n) == SubSeq(s, 1, IF Len(s) < n THEN Len(s) ELSE n)

MaxOf(S) == CHOOSE x \in S : \A y \in S : y <= x

Math_max(s) == MaxOf({s[i].similarity : i \in 1..Len(s)})

\* variant: the comparator is a.similarity - b.similarity
RECURSIVE InsertDesc_ascending(_, _)
InsertDesc_ascending(s, c) ==
    IF s = <<>> THEN <<c>>
    ELSE IF Head(s).similarity <= c.similarity
         THEN <<Head(s)>> \o InsertDesc_ascending(Tail(s), c)
         ELSE <<c>> \o s

\* Array.prototype.sort((a, b) => b.similarity - a.similarity): stable,
\* descending; c goes after every element that is not smaller
RECURSIVE InsertDesc(_, _)
InsertDesc(s, c) ==
    IF s = <<>> THEN <<c>>
    ELSE IF Head(s).similarity >= c.similarity
         THEN <<Head(s)>> \o InsertDesc(Tail(s), c)
         ELSE <<c>> \o s

RECURSIVE SortDesc(_)
SortDesc(s) ==
    IF s = <<>> THEN <<>>
    ELSE InsertDesc(SortDesc(SubSeq(s, 1, Len(s) - 1)), s[Len(s)])

-----------------------------------------------------------------------------
(* The wire format of a vector-search row: similarity may arrive as a      *)
(* number, as a numeric string, as a non-numeric string, or as null.       *)

RawSims ==
    [t : {"num"}, v : Sims] \cup
    {[t |-> "str", v |-> 60000], [t |-> "bad", v |-> 0], [t |-> "null", v |-> 0]}

RawRows == [id : Ids, similarity : RawSims]

\* responses of the store: rows with pairwise distinct ids, in any order
RawResponses ==
    {s \in SeqsUpTo(RawRows, MaxRows) :
        \A i, j \in 1..Len(s) : i # j => s[i].id # s[j].id}

CoerceSimilarity(raw) ==
    CASE raw.t = "str" -> raw.v
      [] raw.t = "num" -> raw.v
      [] OTHER -> 0

\* variant: the normalised rows are re-sorted by similarity
normalizeChunks_sorted(rows) ==
    SortDesc([i \in 1..Len(rows) |->
        [id |-> rows[i].id,
         content |-> ContentLenOf(rows[i].id),
         page_number |-> PageOf(rows[i].id),
         similarity |-> CoerceSimilarity(rows[i].similarity)]])

normalizeChunks(rows) ==
    [i \in 1..Len(rows) |->
        [id |-> rows[i].id,
         content |-> ContentLenOf(rows[i].id),
         page_number |-> PageOf(rows[i].id),
         similarity |-> CoerceSimilarity(rows[i].similarity)]]

TopSim(cs) == IF Len(cs) > 0 THEN Math_max(cs) ELSE 0

-----------------------------------------------------------------------------
(* Merge, dedupe, sort, limit *)

IndexOfId(s, id) ==
    IF \E i \in 1..Len(s) : s[i].id = id
    THEN CHOOSE i \in 1..Len(s) : s[i].id = id
    ELSE 0

\* variant: an id seen before is entered again
MapSet_noDedupe(m, c) == Append(m, c)

\* variant: on conflict the lower similarity wins
MapSet_keepLower(m, c) ==
    LET k == IndexOfId(m, c.id) IN
    IF k = 0 THEN Append(m, c)
    ELSE IF c.similarity < m[k].similarity THEN [m EXCEPT ![k] = c]
    ELSE m

\* map.set keeps the position of an existing key and appends a new one
MapSet(m, c) ==
    LET k == IndexOfId(m, c.id) IN
    IF k = 0 THEN Append(m, c)
    ELSE IF c.similarity > m[k].similarity THEN [m EXCEPT ![k] = c]
    ELSE m

RECURSIVE MapFill(_, _)
MapFill(m, s) ==
    IF s = <<>> THEN m ELSE MapFill(MapSet(m, Head(s)), Tail(s))

\* merge, dedupe, sort, limit to cap
MergeChunksCap(c1, c2, cap) == Take(SortDesc(MapFill(<<>>, c1 \o c2)), cap)

MergeChunks(c1, c2) == MergeChunksCap(c1, c2, MATCH_COUNT_FINAL)

-----------------------------------------------------------------------------
(* The request and the response of POST /api/chat *)

Requests ==
    [msgs : {"missing", "empty", "lastAssistant", "lastUser"},
     allowUngrounded : BOOLEAN]

\* requestId: whether the response carries the request's id (X-Request-Id)
NoResponse ==
    [kind |-> "none", status |-> 0, error |-> "", answer |-> "",
     reason |-> "", topSimilarity |-> 0, sources |-> <<>>, requestId |-> FALSE]

ErrorResponse(status, msg) ==
    [NoResponse EXCEPT !.kind = "json", !.status = status, !.error = msg]

StreamResponse ==
    [NoResponse EXCEPT !.kind = "stream", !.status = 200, !.requestId = TRUE]

\* Number(c.similarity.toFixed(4)): round to 4 decimals
ToFixed4(sim) == ((sim + 5) \div 10) * 10

\* length of the excerpt: 200 characters plus "..." when the content is longer
Excerpt(content) ==
    IF content > ExcerptChars THEN ExcerptChars + 3 ELSE content

BuildSources(cs) ==
    [i \in 1..Len(cs) |->
        [page |-> cs[i].page_number,
         similarity |-> ToFixed4(cs[i].similarity),
         excerpt |-> Excerpt(cs[i].content)]]

\* variant: the gate tests emptiness only
InsufficientContext_emptyOnly(cs) == Len(cs) = 0

\* the gate on similarity
InsufficientContext(cs) == Len(cs) = 0 \/ TopSim(cs) < MIN_SIMILARITY

\* variant: the reason is derived from the top similarity
GateReason_bySim(cs) == IF TopSim(cs) = 0 THEN "no_chunks_found" ELSE "low_similarity"

GateReason(cs) == IF Len(cs) = 0 THEN "no_chunks_found" ELSE "low_similarity"

InsufficientResponse(cs) ==
    [NoResponse EXCEPT !.kind = "json", !.status = 200,
                       !.answer = "INSUFFICIENT_CONTEXT",
                       !.reason = GateReason(cs),
                       !.topSimilarity = TopSim(cs),
                       !.sources = BuildSources(cs)]

-----------------------------------------------------------------------------
(* The writes of customStream *)

MetaWrite(srcs) == [kind |-> "meta", sources |-> srcs, v |-> 0]
TextWrite(n) == [kind |-> "text", sources |-> <<>>, v |-> n]
ErrorMarker == [kind |-> "error", sources |-> <<>>, v |-> 0]

\* controller.enqueue and controller.close throw unless the stream is readable
CanCloseOrEnqueue(c) == c = "readable"

\* variant: the stream is left open
controllerClose_open(c) == c

\* controller.close(): closes a readable stream (and throws otherwise)
controllerClose(c) == IF CanCloseOrEnqueue(c) THEN "closed" ELSE c

\* variant: the sources are not sent
EmitMetadata_omitted(o, srcs) == o

\* "Send sources first"
EmitMetadata(o, srcs) == Append(o, MetaWrite(srcs))

\* the relay of one chunk of the provider
RelayChunk(o, n) == Append(o, TextWrite(n))

\* variant: the catch block writes no marker
CatchEnqueue_silent(c, o) == o

\* catch: try { enqueue(marker) } catch { log }
CatchEnqueue(c, o) == IF CanCloseOrEnqueue(c) THEN Append(o, ErrorMarker) ELSE o

\* finally: if (reader) await reader.cancel()
FinallyRelease(rd, n) == IF rd = "held" THEN n + 1 ELSE n

\* variant: cancel(reason) also cancels the reader that start() holds
SourceCancel_release(rd, n) == IF rd = "held" THEN n + 1 ELSE n

\* cancel(reason) of the underlying source: logs, touches nothing
SourceCancel(rd, n) == n

NoRead == [t |-> "none", v |-> 0]

NoCalls == [embed |-> 0, strict |-> 0, fallback |-> 0, llm |-> 0]

NoneSettled == [embed |-> "none", strict |-> "none", fallback |-> "none"]

-----------------------------------------------------------------------------
(* The components at rest *)

NoMergeIn == [c1 |-> <<>>, c2 |-> <<>>, cap |-> 0]

MergeIdle ==
    /\ mpc = "off"
    /\ mIn = NoMergeIn
    /\ mOut = <<>>

NoOpts == [n |-> 0, batchSize |-> 0, concurrency |-> 0, maxRetries |-> 0,
           normalize |-> FALSE]

EmbedIdle ==
    /\ epc = "off"
    /\ eOpts = NoOpts
    /\ eWave = 0
    /\ eBatch = <<>>
    /\ eOutputs = <<>>
    /\ eResult = <<>>

NoFile == [present |-> FALSE, mime |-> "", size |-> 0, header |-> "",
           parses |-> FALSE, numPages |-> 0, textLen |-> 0]

NoIngestResponse == [status |-> 0, code |-> "", success |-> FALSE]

SaveIdle ==
    /\ svpc = "off"
    /\ sRows = <<>>
    /\ sBatchSize = 0
    /\ sNext = 0
    /\ sInserts = 0
    /\ sPersisted = 0

RouteFresh ==
    /\ iSteps = <<>>
    /\ iChunks = 0
    /\ iEmb = <<>>
    /\ iEmbedCalls = 0
    /\ iResp = NoIngestResponse
    /\ documents = 0

RouteIdle ==
    /\ ipc = "off"
    /\ iFile = NoFile
    /\ RouteFresh

IngestIdle ==
    /\ RouteIdle
    /\ SaveIdle

NoChunkIn == [text |-> <<>>, pieces |-> <<>>, numPages |-> 0]

ChunkIdle ==
    /\ cpc = "off"
    /\ cIn = NoChunkIn
    /\ cOut = <<>>

NoPromptIn ==
    [chunks |-> <<>>, maxContextChars |-> 0, maxContextTokens |-> 0,
     perChunkChars |-> 0, perChunkTokens |-> 0, tokenCounter |-> "none",
     sortChunks |-> FALSE]

NoPromptOut == [context |-> <<>>, count |-> 0, forced |-> FALSE, cut |-> FALSE]

PromptIdle ==
    /\ ppc = "off"
    /\ pIn = NoPromptIn
    /\ pOut = NoPromptOut

NoTimer == [state |-> "none", at |-> 0]

NoError == [name |-> "", message |-> "", cause |-> "none"]

TimedFresh ==
    /\ tNow = 0
    /\ tTimers = [t \in {"abort", "inner", "rpc"} |-> NoTimer]
    /\ tCalls = [c \in {"hf", "rpc"} |-> "none"]
    /\ tAborted = FALSE
    /\ tGet = "none"
    /\ tErr = NoError

TimedIdle ==
    /\ tpc = "off"
    /\ tTimeout = 0
    /\ TimedFresh

QueryFresh ==
    /\ chunks1 = <<>>
    /\ chunks = <<>>
    /\ calls = NoCalls
    /\ settled = NoneSettled
    /\ storeOrder = <<>>
    /\ response = NoResponse
    /\ ctrl = "none"
    /\ out = <<>>
    /\ spc = "idle"
    /\ reader = "none"
    /\ releases = 0
    /\ pending = NoRead
    /\ produced = 0

QueryIdle ==
    /\ req = [msgs |-> "missing", allowUngrounded |-> FALSE]
    /\ pc = "off"
    /\ QueryFresh

Init ==
    /\ req \in Requests
    /\ pc = "recv"
    /\ QueryFresh
    /\ MergeIdle
    /\ EmbedIdle
    /\ IngestIdle
    /\ ChunkIdle
    /\ PromptIdle
    /\ TimedIdle

streamVars == <<ctrl, out, spc, reader, releases, pending, produced>>

\* the outer catch of POST: 500 with the message of the error
Fail500(msg) ==
    /\ pc' = "responded"
    /\ response' = ErrorResponse(500, msg)

RetrievalFailed == "Failed to retrieve relevant content from PDF."

\* variant: the role of the last message is not looked at
RequestError_anyRole(r) ==
    IF r.msgs \in {"missing", "empty"} THEN "No messages provided" ELSE ""

\* the request validation of POST: the error of the 400 response, "" when valid
RequestError(r) ==
    IF r.msgs \in {"missing", "empty"} THEN "No messages provided"
    ELSE IF r.msgs # "lastUser" THEN "Last message must be from the user"
    ELSE ""

\* POST, up to the first await inside retrieveChunks
POST_Validate ==
    /\ pc = "recv"
    /\ IF RequestError(req) # ""
       THEN /\ pc' = "responded"
            /\ response' = ErrorResponse(400, RequestError(req))
            /\ calls' = calls
       ELSE /\ pc' = "embedding"
            /\ response' = response
            /\ calls' = [calls EXCEPT !.embed = @ + 1]
    /\ UNCHANGED <<req, chunks1, chunks, settled, storeOrder>>
    /\ UNCHANGED streamVars
    /\ UNCHANGED notQueryVars

\* variant: a query embedding that timed out is requested once more
EmbeddingSettled_retry(outcome) ==
    /\ pc = "embedding"
    /\ IF outcome \in {"ok", "wrongdim"}
       THEN /\ pc' = "strict"
            /\ calls' = [calls EXCEPT !.strict = @ + 1]
            /\ response' = response
       ELSE IF outcome = "timeout" /\ calls.embed < 2
       THEN /\ pc' = pc
            /\ calls' = [calls EXCEPT !.embed = @ + 1]
            /\ response' = response
       ELSE /\ Fail500(RetrievalFailed)
            /\ calls' = calls
    /\ settled' = [settled EXCEPT !.embed = outcome]
    /\ UNCHANGED <<req, chunks1, chunks, storeOrder>>
    /\ UNCHANGED streamVars
    /\ UNCHANGED notQueryVars

\* retrieveChunks, step 1: the query embedding settles
EmbeddingSettled(outcome) ==
    /\ pc = "embedding"
    /\ IF outcome \in {"ok", "wrongdim"}
       THEN /\ pc' = "strict"
            /\ calls' = [calls EXCEPT !.strict = @ + 1]
            /\ response' = response
       ELSE /\ Fail500(RetrievalFailed)
            /\ calls' = calls
    /\ settled' = [settled EXCEPT !.embed = outcome]
    /\ UNCHANGED <<req, chunks1, chunks, storeOrder>>
    /\ UNCHANGED streamVars
    /\ UNCHANGED notQueryVars

\* rows seen by normalizeChunks: (raw?.data) || []
DataOf(outcome, rows) == IF outcome = "data" THEN rows ELSE <<>>

\* variant: any strict-tier row ends the retrieval
EarlyReturn_nonEmpty(c1) == Len(c1) > 0

\* if (topSim1 >= MIN_SIMILARITY) return chunks1
EarlyReturn(c1) == TopSim(c1) >= MIN_SIMILARITY

\* retrieveChunks, step 2: the strict query settles
StrictSettled(outcome, rows) ==
    /\ pc = "strict"
    /\ IF outcome \in {"reject", "timeout"}
       THEN /\ Fail500(RetrievalFailed)
            /\ UNCHANGED <<chunks1, chunks, calls, storeOrder>>
       ELSE LET c1 == normalizeChunks(DataOf(outcome, rows)) IN
            /\ chunks1' = c1
            /\ storeOrder' = [i \in 1..Len(rows) |-> rows[i].id]
            /\ response' = response
            /\ IF EarlyReturn(c1)
               THEN /\ pc' = "retrieved"
                    /\ chunks' = c1
                    /\ calls' = calls
               ELSE /\ pc' = "fallback"
                    /\ chunks' = chunks
                    /\ calls' = [calls EXCEPT !.fallback = @ + 1]
    /\ settled' = [settled EXCEPT !.strict = outcome]
    /\ UNCHANGED req
    /\ UNCHANGED streamVars
    /\ UNCHANGED notQueryVars

\* variant: a failed fallback returns nothing
FallbackResult_dropStrict(outcome, c1, rows) ==
    IF outcome \in {"reject", "timeout"}
    THEN <<>>
    ELSE MergeChunks(c1, normalizeChunks(DataOf(outcome, rows)))

\* what retrieveChunks returns once the fallback query settled: chunks1 from
\* the catch block, the merged set otherwise
FallbackResult(outcome, c1, rows) ==
    IF outcome \in {"reject", "timeout"}
    THEN c1
    ELSE MergeChunks(c1, normalizeChunks(DataOf(outcome, rows)))

\* retrieveChunks, step 3: the fallback query settles
FallbackSettled(outcome, rows) ==
    /\ pc = "fallback"
    /\ pc' = "retrieved"
    /\ chunks' = FallbackResult(outcome, chunks1, rows)
    /\ settled' = [settled EXCEPT !.fallback = outcome]
    /\ UNCHANGED <<req, chunks1, calls, storeOrder, response>>
    /\ UNCHANGED streamVars
    /\ UNCHANGED notQueryVars

\* POST after retrieveChunks returned: sources, gate, and the construction of
\* customStream, whose start() runs up to its first await
POST_Respond(llm) ==
    /\ pc = "retrieved"
    /\ pc' = "responded"
    /\ chunks1' = <<>>
    /\ storeOrder' = <<>>
    /\ IF InsufficientContext(chunks)
       THEN /\ response' = InsufficientResponse(chunks)
            /\ calls' = calls
            /\ UNCHANGED streamVars
       ELSE /\ response' = StreamResponse
            /\ calls' = [calls EXCEPT !.llm = @ + 1]
            /\ UNCHANGED <<pending, produced>>
            /\ IF llm = "reader"
               THEN /\ out' = EmitMetadata(out, BuildSources(chunks))
                    /\ ctrl' = "readable"
                    /\ reader' = "held"
                    /\ spc' = "awaitRead"
                    /\ releases' = releases
               ELSE /\ out' = CatchEnqueue("readable",
                                  EmitMetadata(out, BuildSources(chunks)))
                    /\ ctrl' = controllerClose("readable")
                    /\ reader' = "none"
                    /\ spc' = "returned"
                    /\ releases' = FinallyRelease("none", releases)
    /\ UNCHANGED <<req, chunks, settled>>
    /\ UNCHANGED notQueryVars

-----------------------------------------------------------------------------
(* The provider's body stream, read by start() through reader.read().  The *)
(* n-th chunk the provider produces carries the value n; a read may also   *)
(* settle with done = false and no value (v = 0).                          *)

retrievalVars == <<req, pc, chunks1, chunks, calls, settled, storeOrder, response>>

ProviderSettle(r) ==
    /\ spc = "awaitRead"
    /\ pending = NoRead
    /\ pending' = r
    /\ UNCHANGED <<ctrl, out, spc, reader, releases>>
    /\ UNCHANGED retrievalVars
    /\ UNCHANGED notQueryVars

ProviderChunk ==
    /\ produced < MaxChunks
    /\ produced' = produced + 1
    /\ ProviderSettle([t |-> "chunk", v |-> produced + 1])

ProviderNoValue ==
    /\ produced' = produced
    /\ ProviderSettle([t |-> "chunk", v |-> 0])

ProviderDone ==
    /\ produced' = produced
    /\ ProviderSettle([t |-> "done", v |-> 0])

ProviderError ==
    /\ produced' = produced
    /\ ProviderSettle([t |-> "error", v |-> 0])

\* the client cancels the response stream: the stream is closed and the
\* underlying source's cancel(reason) runs
ClientCancel ==
    /\ response.kind = "stream"
    /\ ctrl = "readable"
    /\ ctrl' = "cancelled"
    /\ releases' = SourceCancel(reader, releases)
    /\ UNCHANGED <<out, spc, reader, pending, produced>>
    /\ UNCHANGED retrievalVars
    /\ UNCHANGED notQueryVars

\* start() resumes from `await reader.read()` and runs to its next await:
\* the next read, or reader.cancel() in the finally block
ReadSettled ==
    /\ spc = "awaitRead"
    /\ pending # NoRead
    /\ IF pending.t = "chunk" /\ (pending.v = 0 \/ CanCloseOrEnqueue(ctrl))
       THEN \* relayed (or skipped when there is no value); read again
            /\ out' = IF pending.v = 0 THEN out ELSE RelayChunk(out, pending.v)
            /\ pending' = NoRead
            /\ UNCHANGED <<ctrl, spc, reader, releases>>
       ELSE IF pending.t = "done" /\ CanCloseOrEnqueue(ctrl)
       THEN \* break; controller.close(); finally
            /\ ctrl' = controllerClose(ctrl)
            /\ spc' = "finally"
            /\ releases' = FinallyRelease(reader, releases)
            /\ reader' = "released"
            /\ UNCHANGED <<out, pending>>
       ELSE \* read rejected, or enqueue/close threw: catch, then finally
            /\ out' = CatchEnqueue(ctrl, out)
            /\ ctrl' = controllerClose(ctrl)
            /\ spc' = IF CanCloseOrEnqueue(ctrl) THEN "finally" ELSE "finallyThrow"
            /\ releases' = FinallyRelease(reader, releases)
            /\ reader' = "released"
            /\ pending' = pending
    /\ produced' = produced
    /\ UNCHANGED retrievalVars
    /\ UNCHANGED notQueryVars

\* `await reader.cancel()` settles (a rejection is caught and logged):
\* start() returns, or rethrows what controller.close() threw in the catch block
ReaderCancelSettled ==
    /\ spc \in {"finally", "finallyThrow"}
    /\ spc' = IF spc = "finally" THEN "returned" ELSE "threw"
    /\ UNCHANGED <<ctrl, out, reader, releases, pending, produced>>
    /\ UNCHANGED retrievalVars
    /\ UNCHANGED notQueryVars

-----------------------------------------------------------------------------
EmbedOutcomes == {"ok", "wrongdim", "empty", "reject", "timeout"}
RpcOutcomes == {"data", "errorResult", "reject", "timeout"}
LlmOutcomes == {"reader", "throw"}

\* an outcome other than "data" carries no rows
RpcSettles == {<<o, r>> \in RpcOutcomes \X RawResponses : o = "data" \/ r = <<>>}

Next ==
    \/ POST_Validate
    \/ \E o \in EmbedOutcomes : EmbeddingSettled(o)
    \/ \E x \in RpcSettles : StrictSettled(x[1], x[2])
    \/ \E x \in RpcSettles : FallbackSettled(x[1], x[2])
    \/ \E l \in LlmOutcomes : POST_Respond(l)
    \/ ProviderChunk
    \/ ProviderNoValue
    \/ ProviderDone
    \/ ProviderError
    \/ ClientCancel
    \/ ReadSettled
    \/ ReaderCancelSettled

Spec == Init /\ [][Next]_vars

\* the event loop runs the continuations of start(); the provider and the
\* client are under no obligation to act
Handler == ReadSettled \/ ReaderCancelSettled

LiveSpec == Spec /\ WF_vars(Handler)

\* C13: when the strict vector search rejects, times out or resolves with
\* an error and no data, the turn is answered with status 500 and never
\* with INSUFFICIENT_CONTEXT.
C13_StrictErrorIsFailure ==
    (pc = "responded" /\ settled.strict \in {"reject", "timeout", "errorResult"}) =>
        /\ response.status = 500
        /\ response.answer # "INSUFFICIENT_CONTEXT"

-----------------------------------------------------------------------------
(* MergeSpec: the merge step of retrieveChunks.  It runs when the strict   *)
(* tier's top similarity is below MIN_SIMILARITY and the fallback query    *)
(* resolved; MATCH_COUNT_FINAL is read from the environment.               *)

\* values of MATCH_COUNT_FINAL: a small cap and the default
Caps == {SmallCap, MATCH_COUNT_FINAL}

TierLists == {normalizeChunks(r) : r \in RawResponses}

StrictLists == {c \in TierLists : TopSim(c) < MIN_SIMILARITY}

MergeInit ==
    /\ mpc = "in"
    /\ mIn \in [c1 : StrictLists, c2 : TierLists, cap : Caps]
    /\ mOut = <<>>
    /\ QueryIdle
    /\ EmbedIdle
    /\ IngestIdle
    /\ ChunkIdle
    /\ PromptIdle
    /\ TimedIdle

MergeRun ==
    /\ mpc = "in"
    /\ mpc' = "out"
    /\ mOut' = MergeChunksCap(mIn.c1, mIn.c2, mIn.cap)
    /\ UNCHANGED mIn
    /\ UNCHANGED notMergeVars

MergeNext == MergeRun

MergeSpec == MergeInit /\ [][MergeNext]_vars

-----------------------------------------------------------------------------
(* Properties of the merge *)

BothTiers == mIn.c1 \o mIn.c2

\* the largest similarity an id has in either tier
BestOf(id) ==
    MaxOf({BothTiers[i].similarity : i \in {k \in 1..Len(BothTiers) : BothTiers[k].id = id}})

MergedIds == {BothTiers[i].id : i \in 1..Len(BothTiers)}

ReturnedIds == {mOut[i].id : i \in 1..Len(mOut)}

\* C11: after a successful fallback each id is returned at most once, each
\* returned fragment is a row of the strict or of the fallback tier, and it
\* carries the largest similarity its id has in the two tiers.
C11_MergeDedupes ==
    mpc = "out" =>
        /\ \A i, j \in 1..Len(mOut) : mOut[i].id = mOut[j].id => i = j
        /\ \A i \in 1..Len(mOut) :
              /\ \E k \in 1..Len(BothTiers) : BothTiers[k] = mOut[i]
              /\ mOut[i].similarity = BestOf(mOut[i].id)

\* an id of both tiers, better in the fallback tier, is returned
C11_Witness ==
    /\ mpc = "out"
    /\ \E i \in 1..Len(mIn.c1), j \in 1..Len(mIn.c2) :
          /\ mIn.c1[i].id = mIn.c2[j].id
          /\ mIn.c1[i].similarity < mIn.c2[j].similarity
          /\ mIn.c1[i].id \in ReturnedIds

\* C12: after a successful fallback the returned set is in non-increasing
\* order of similarity, holds at most the final cap of fragments, and no
\* fragment left out is strictly better than one that was returned.
C12_MergeSortedAndCapped ==
    mpc = "out" =>
        /\ \A i \in 1..(Len(mOut) - 1) : mOut[i].similarity >= mOut[i + 1].similarity
        /\ Len(mOut) <= mIn.cap
        /\ \A id \in MergedIds \ ReturnedIds :
              \A j \in 1..Len(mOut) : BestOf(id) <= mOut[j].similarity

\* the cap cut the merged set
C12_Witness ==
    /\ mpc = "out"
    /\ Cardinality(MergedIds) > mIn.cap
    /\ Len(mOut) = mIn.cap
    /\ \E id \in MergedIds \ ReturnedIds : BestOf(id) > 0

\* C22: a request whose messages are missing or empty, or whose last message
\* is not from the user, is answered with status 400 and an error body, and
\* no embedding call, vector search or LLM call is issued for it.
C22_InvalidRequestRejected ==
    (pc # "recv" /\ req.msgs \in {"missing", "empty", "lastAssistant"}) =>
        /\ pc = "responded"
        /\ response.kind = "json"
        /\ response.status = 400
        /\ response.error # ""
        /\ calls = NoCalls
        /\ spc = "idle"

\* a request whose last message is from the assistant was answered
C22_Witness ==
    /\ pc = "responded"
    /\ req.msgs = "lastAssistant"
    /\ response.status = 400

\* the query embedding or a vector search failed and ended the turn
UpstreamFailed ==
    \/ settled.embed \in {"empty", "reject", "timeout"}
    \/ settled.strict \in {"reject", "timeout"}

\* C23: when the query embedding or a vector search fails, the response is
\* the generic message together with the request's id.
C23_FailureCarriesRequestId ==
    (pc = "responded" /\ UpstreamFailed) =>
        /\ response.status = 500
        /\ response.error = RetrievalFailed
        /\ response.requestId

\* C24: every excerpt in the metadata prefix and in the sources of an
\* INSUFFICIENT_CONTEXT response has at most 200 characters.
C24_ExcerptAtMost200 ==
    /\ \A i \in 1..Len(response.sources) : response.sources[i].excerpt <= ExcerptChars
    /\ \A k \in 1..Len(out) : \A i \in 1..Len(out[k].sources) :
          out[k].sources[i].excerpt <= ExcerptChars

\* C25: start() never ends by throwing, also when the client has cancelled
\* and both the write of the marker and controller.close() fail.
C25_StartNeverThrows == spc # "threw"

\* C26: a turn issues at most one query-embedding call, one strict search,
\* one fallback search and one LLM call; after a failure or a timeout of a
\* call nothing more is issued.
C26_NoRetries ==
    /\ calls.embed <= 1 /\ calls.strict <= 1 /\ calls.fallback <= 1 /\ calls.llm <= 1
    /\ settled.embed \in {"empty", "reject", "timeout"} =>
          calls = [NoCalls EXCEPT !.embed = 1]
    /\ settled.strict \in {"reject", "timeout"} =>
          calls = [NoCalls EXCEPT !.embed = 1, !.strict = 1]
    /\ settled.fallback \in {"reject", "timeout"} =>
          calls.embed = 1 /\ calls.strict = 1 /\ calls.fallback = 1

\* the fallback search timed out after the strict search and the turn was
\* answered without a further call
C26_Witness ==
    /\ pc = "responded"
    /\ settled.fallback = "timeout"
    /\ calls = [embed |-> 1, strict |-> 1, fallback |-> 1, llm |-> 0]

-----------------------------------------------------------------------------
(* Properties of the response stream *)

Prefix == <<MetaWrite(BuildSources(chunks))>>

Texts(k) == [i \in 1..k |-> TextWrite(i)]

\* start() left the relay loop (it is in, or past, the finally block)
PastLoop == spc \in {"finally", "finallyThrow", "returned", "threw"}

ReadFailed == PastLoop /\ pending.t = "error"

\* the provider call failed before a reader existed
CallFailed == response.kind = "stream" /\ spc = "returned" /\ reader = "none"

ProviderFailed == ReadFailed \/ CallFailed

CompletedNormally == PastLoop /\ pending.t = "done"

MarkerOnlyLast == \A i \in 1..Len(out) : out[i].kind = "error" => i = Len(out)

NoMarker == \A i \in 1..Len(out) : out[i].kind # "error"

\* C1: on every path of a streamed response the first write is the
\* {sources} object with its delimiter, built from the retrieved set, and
\* it is written exactly once, before any provider chunk or error marker.
C1_MetadataFirst ==
    response.kind = "stream" =>
        /\ Len(out) >= 1
        /\ out[1] = MetaWrite(BuildSources(chunks))
        /\ \A i \in 2..Len(out) : out[i].kind # "meta"

\* the provider call failed before producing any output
C1_Witness ==
    /\ CallFailed
    /\ Len(chunks) = 2
    /\ out = Prefix \o <<ErrorMarker>>

C3_ReleasedExactlyOnce ==
    /\ releases <= 1
    /\ (PastLoop /\ reader # "none") => releases = 1
    /\ reader = "none" => releases = 0

\* exit after a client-initiated cancellation
C3_Witness ==
    /\ spc = "threw"
    /\ ctrl = "cancelled"
    /\ reader = "released"
    /\ releases = 1

\* C4: once the client has cancelled while start() awaits a read, the loop
\* stops and the reader is released, whatever the provider does.
C4_CancelPropagates ==
    (ctrl = "cancelled" /\ spc = "awaitRead") ~> (reader = "released")

-----------------------------------------------------------------------------
(* Properties of the gate *)

\* retrieveChunks returned and POST answered without an error body
Answered == pc = "responded" /\ response.error = ""

\* the retrieved set is empty or none of its similarities reaches the threshold
WeakEvidence ==
    \A i \in 1..Len(chunks) : chunks[i].similarity < MIN_SIMILARITY

\* C5: without the opt-in, an empty or below-threshold retrieved set is
\* answered with the INSUFFICIENT_CONTEXT JSON, status 200; nothing is
\* written to a stream and the LLM provider is not called.
C5_GateShortCircuits ==
    /\ (Answered /\ ~req.allowUngrounded /\ WeakEvidence) =>
          /\ response.kind = "json"
          /\ response.status = 200
          /\ response.answer = "INSUFFICIENT_CONTEXT"
    /\ response.answer = "INSUFFICIENT_CONTEXT" =>
          /\ out = <<>>
          /\ ctrl = "none"
          /\ spc = "idle"
          /\ calls.llm = 0

C5_Witness ==
    /\ Answered
    /\ ~req.allowUngrounded
    /\ response.answer = "INSUFFICIENT_CONTEXT"
    /\ response.reason = "low_similarity"
    /\ settled.fallback = "data"

\* C6: with allowUngrounded set, an empty or below-threshold retrieved set
\* is answered with the streamed response.
C6_UngroundedStreams ==
    (Answered /\ req.allowUngrounded /\ WeakEvidence) =>
        response.kind = "stream"

\* C7: in an INSUFFICIENT_CONTEXT response the reason is no_chunks_found
\* exactly when the retrieved set is empty (topSimilarity 0, no sources);
\* otherwise it is low_similarity, topSimilarity is the largest similarity
\* of the set and sources lists the fragments one by one in retrieval order.
C7_InsufficientBody ==
    response.answer = "INSUFFICIENT_CONTEXT" =>
        /\ response.reason = "no_chunks_found" <=> chunks = <<>>
        /\ chunks = <<>> => response.topSimilarity = 0 /\ response.sources = <<>>
        /\ chunks # <<>> =>
              /\ response.reason = "low_similarity"
              /\ \A i \in 1..Len(chunks) : chunks[i].similarity <= response.topSimilarity
              /\ \E i \in 1..Len(chunks) : chunks[i].similarity = response.topSimilarity
              /\ Len(response.sources) = Len(chunks)
              /\ \A i \in 1..Len(chunks) :
                    /\ response.sources[i].page = chunks[i].page_number
                    /\ response.sources[i].similarity - chunks[i].similarity \in -5..5

\* a non-empty set whose similarities are all 0
C7_Witness ==
    /\ response.answer = "INSUFFICIENT_CONTEXT"
    /\ Len(chunks) = 2
    /\ response.topSimilarity = 0

-----------------------------------------------------------------------------
(* Properties of retrieveChunks, stated where it returns *)

IdsOf(cs) == [i \in 1..Len(cs) |-> cs[i].id]

\* C8: when the strict tier's top similarity is below the threshold, no
\* strict-tier similarity exceeds the top similarity of the returned set,
\* whether the fallback succeeded or failed.
C8_FallbackNeverWorse ==
    (pc = "retrieved" /\ TopSim(chunks1) < MIN_SIMILARITY) =>
        /\ TopSim(chunks) >= TopSim(chunks1)
        /\ \A i \in 1..Len(chunks1) :
              \E j \in 1..Len(chunks) : chunks[j].similarity >= chunks1[i].similarity

\* the merged set is strictly better than the strict tier
C8_Witness ==
    /\ pc = "retrieved"
    /\ settled.fallback = "data"
    /\ chunks1 # <<>>
    /\ TopSim(chunks) > TopSim(chunks1)

C10_StrictAccepted ==
    (pc = "retrieved" /\ TopSim(chunks1) >= MIN_SIMILARITY) =>
        /\ chunks = chunks1
        /\ IdsOf(chunks) = storeOrder
        /\ calls.fallback = 0
        /\ settled.fallback = "none"

\* accepted rows that the store did not send in descending order
C10_Witness ==
    /\ pc = "retrieved"
    /\ calls.fallback = 0
    /\ Len(chunks) = 2
    /\ chunks[1].similarity < chunks[2].similarity

\* C38: a turn whose retrieval returned the strict-tier results without a
\* fallback query is answered with the streamed response, and every
\* INSUFFICIENT_CONTEXT response comes after a fallback query of the same
\* turn, whether that query succeeded or failed.
C38_EarlyReturnAgreesWithGate ==
    /\ (Answered /\ calls.fallback = 0) => response.kind = "stream"
    /\ response.answer = "INSUFFICIENT_CONTEXT" =>
          calls.fallback = 1 /\ settled.fallback # "none"

\* INSUFFICIENT_CONTEXT after a fallback query that failed, the strict tier
\* having found a fragment below the threshold
C38_Witness ==
    /\ response.answer = "INSUFFICIENT_CONTEXT"
    /\ response.reason = "low_similarity"
    /\ settled.fallback = "reject"
    /\ calls.fallback = 1

-----------------------------------------------------------------------------
(* Properties of the streamer on the paths without a client cancel *)

\* the writes before the last one
Earlier(o) == SubSeq(o, 1, Len(o) - 1)

\* C37: as long as the client has not cancelled, the response stream is
\* closed once start() has left its try block and closing never fails,
\* nothing is written to a closed stream and it stays closed, and the error
\* marker is written at most once, as the last write, with the close
\* following in the same step.
C37_ClosedOnceMarkerLast ==
    [][/\ ctrl = "closed" => (ctrl' = "closed" /\ out' = out)
       /\ ctrl' # "cancelled" =>
             /\ spc' \in {"finally", "returned"} => ctrl' = "closed"
             /\ spc' \notin {"finallyThrow", "threw"}
             /\ \A i \in 1..Len(out') :
                   out'[i].kind = "error" => (i = Len(out') /\ ctrl' = "closed")]_vars

\* a read failed after a chunk was relayed: sources, text, marker, closed
C37_Witness ==
    /\ ctrl = "closed"
    /\ spc = "returned"
    /\ Len(out) = 3
    /\ out[2].kind = "text"
    /\ out[3] = ErrorMarker
    /\ releases = 1

-----------------------------------------------------------------------------
(* EmbedSpec: createHuggingFaceEmbeddings (src/lib/pdf/saveEmbeddings.ts). *)
(* The input texts are 1..n (text i is the i-th input).  A vector is a     *)
(* sequence of elements; NotANumber stands for an element that is not of   *)
(* type number.  An embedding is num/den: the service's vector divided by  *)
(* its norm when it was normalised, by 1 when it was not.                  *)

NotANumber == -1

IsNumber(e) == e # NotANumber

\* vectors the service may send for one text
ServiceVectors == {<<3, 4>>, <<0, 0>>, <<3, NotANumber>>, <<>>}

Isqrt(x) == CHOOSE r \in 0..x : r * r <= x /\ (r + 1) * (r + 1) > x

RECURSIVE SumSquares(_)
SumSquares(vec) ==
    IF vec = <<>> THEN 0 ELSE Head(vec) * Head(vec) + SumSquares(Tail(vec))

l2Normalize(vec) ==
    LET norm == Isqrt(SumSquares(vec)) IN
    IF norm = 0 THEN [num |-> vec, den |-> 1] ELSE [num |-> vec, den |-> norm]

FinalEmbedding(normalize, vec) ==
    IF normalize THEN l2Normalize(vec) ELSE [num |-> vec, den |-> 1]

NullItem == [content |-> 0, embedding |-> [num |-> <<>>, den |-> 0]]

OptsSet ==
    [n : 0..MaxTexts, batchSize : 1..MaxBatchSize, concurrency : 1..MaxConcurrency,
     maxRetries : 0..MaxRetriesOpt, normalize : BOOLEAN]

\* batches.push({ start: i, inputs: chunks.slice(i, i + batchSize) })
NumBatches(o) == (o.n + o.batchSize - 1) \div o.batchSize

BatchStart(o, b) == (b - 1) * o.batchSize

BatchLen(o, b) ==
    IF BatchStart(o, b) + o.batchSize <= o.n THEN o.batchSize ELSE o.n - BatchStart(o, b)

\* variant: a group takes one batch more than the concurrency
WaveBatches_wide(o, w) ==
    {b \in 1..NumBatches(o) : (w - 1) * o.concurrency < b /\ b <= w * o.concurrency + 1}

\* batches.slice(i, i + concurrency) for the w-th group
WaveBatches(o, w) ==
    {b \in 1..NumBatches(o) : (w - 1) * o.concurrency < b /\ b <= w * o.concurrency}

NumWaves(o) == (NumBatches(o) + o.concurrency - 1) \div o.concurrency

NoResp == [t |-> "none", vs |-> <<>>]

\* sawBad records that the service once answered this batch's call with a
\* wrong number of vectors or with a vector holding a non-number; lateCall
\* records that a call of this batch was issued after the operation rejected
IdleBatch ==
    [st |-> "idle", attempt |-> 0, ncalls |-> 0, okAt |-> 0, resp |-> NoResp,
     sawBad |-> FALSE, lateCall |-> FALSE]

\* the group member has called client.featureExtraction for the first time
LaunchedBatch == [IdleBatch EXCEPT !.st = "inflight", !.ncalls = 1]

\* what the service may answer to a call with k inputs
Responses(k) ==
    {[t |-> "reject", vs |-> <<>>], [t |-> "null", vs |-> <<>>],
     [t |-> "flat", vs |-> <<<<3, 4>>>>]}
    \cup [t : {"vectors"}, vs : [1..k -> ServiceVectors]]
    \cup {[t |-> "vectors", vs |-> [i \in 1..m |-> <<3, 4>>]] : m \in {k - 1, k + 1}}

\* an answer that does not carry exactly one vector of numbers per input
BadResponse(r, k) ==
    \/ r.t = "flat" /\ (k # 1 \/ \E j \in 1..Len(r.vs[1]) : ~IsNumber(r.vs[1][j]))
    \/ r.t = "vectors" /\
          (Len(r.vs) # k \/ \E i \in 1..Len(r.vs) : \E j \in 1..Len(r.vs[i]) :
                                  ~IsNumber(r.vs[i][j]))

\* embedBatch, one attempt: "throw" (caught, counted as a failed attempt),
\* "nested" (res returned) or "single" ([res] returned)
ShapeOf(r, k) ==
    IF r.t = "vectors"
    THEN IF Len(r.vs) > 0 /\ Len(r.vs[1]) > 0 /\ IsNumber(r.vs[1][1])
         THEN "nested" ELSE "throw"
    ELSE IF r.t = "flat"
    THEN IF Len(r.vs[1]) > 0 /\ IsNumber(r.vs[1][1]) /\ k = 1
         THEN "single" ELSE "throw"
    ELSE "throw"

\* variant: one more attempt is made before giving up
Exhausted_late(attempt, maxRetries) == attempt > maxRetries + 1

\* if (attempt > maxRetries) break
Exhausted(attempt, maxRetries) == attempt > maxRetries

VectorOk(v) == \A j \in 1..Len(v) : IsNumber(v[j])

\* number of vectors stored before the loop over the batch stops
StoredCount(eb) ==
    IF \E j \in 1..Len(eb) : ~VectorOk(eb[j])
    THEN (CHOOSE j \in 1..Len(eb) : ~VectorOk(eb[j]) /\ \A i \in 1..(j - 1) : VectorOk(eb[i])) - 1
    ELSE Len(eb)

\* variant: the vectors of a batch are taken in reverse
EmbeddingAt_reversed(eb, j) == eb[Len(eb) + 1 - j]

\* const emb = embeddingsBatch[j]
EmbeddingAt(eb, j) == eb[j]

\* outputs[batch.start + j] = { content: batch.inputs[j], embedding: finalEmb }
FillOutputs(outs, o, b, eb, cnt) ==
    [i \in 1..Len(outs) |->
        IF BatchStart(o, b) < i /\ i <= BatchStart(o, b) + cnt
        THEN [content |-> i,
              embedding |-> FinalEmbedding(o.normalize, EmbeddingAt(eb, i - BatchStart(o, b)))]
        ELSE outs[i]]

EmbedInit ==
    /\ epc = "called"
    /\ eOpts \in OptsSet
    /\ eWave = 0
    /\ eBatch = <<>>
    /\ eOutputs = <<>>
    /\ eResult = <<>>
    /\ QueryIdle
    /\ MergeIdle
    /\ IngestIdle
    /\ ChunkIdle
    /\ PromptIdle
    /\ TimedIdle

\* createHuggingFaceEmbeddings up to its first await: the first group is started
EmbedCall ==
    /\ epc = "called"
    /\ IF eOpts.n = 0
       THEN /\ epc' = "resolved"
            /\ UNCHANGED <<eWave, eBatch, eOutputs>>
       ELSE /\ epc' = "running"
            /\ eWave' = 1
            /\ eBatch' = [b \in 1..NumBatches(eOpts) |->
                            IF b \in WaveBatches(eOpts, 1) THEN LaunchedBatch ELSE IdleBatch]
            /\ eOutputs' = [i \in 1..eOpts.n |-> NullItem]
    /\ UNCHANGED <<eOpts, eResult>>
    /\ UNCHANGED notEmbedVars

\* the embedding service answers the outstanding call of batch b
ServiceResponds(b, r) ==
    /\ epc \in {"running", "rejected"}
    /\ b \in DOMAIN eBatch
    /\ eBatch[b].st = "inflight"
    /\ r \in Responses(BatchLen(eOpts, b))
    /\ eBatch' = [eBatch EXCEPT ![b].st = "responded", ![b].resp = r]
    /\ UNCHANGED <<epc, eOpts, eWave, eOutputs, eResult>>
    /\ UNCHANGED notEmbedVars

\* the sleep of the backoff ends: embedBatch calls the service again
BackoffElapsed(b) ==
    /\ epc \in {"running", "rejected"}
    /\ b \in DOMAIN eBatch
    /\ eBatch[b].st = "sleeping"
    /\ eBatch' = [eBatch EXCEPT ![b].st = "inflight", ![b].ncalls = @ + 1,
                                ![b].resp = NoResp,
                                ![b].lateCall = @ \/ epc = "rejected"]
    /\ UNCHANGED <<epc, eOpts, eWave, eOutputs, eResult>>
    /\ UNCHANGED notEmbedVars

\* the group member of batch b resumes with the service's answer and runs
\* to its next await or to its end; when it ends, Promise.all may settle and
\* createHuggingFaceEmbeddings continue with the next group or return
BatchResume(b) ==
    /\ epc \in {"running", "rejected"}
    /\ b \in DOMAIN eBatch
    /\ eBatch[b].st = "responded"
    /\ LET k == BatchLen(eOpts, b)
           r == eBatch[b].resp
           shape == ShapeOf(r, k)
           eb == IF shape = "single" THEN <<r.vs[1]>> ELSE r.vs
           att == eBatch[b].attempt + 1
           cnt == IF Len(eb) = k THEN StoredCount(eb) ELSE 0
           nb == IF shape = "throw"
                 THEN [eBatch[b] EXCEPT !.attempt = att,
                           !.sawBad = @ \/ BadResponse(r, k),
                           !.st = IF Exhausted(att, eOpts.maxRetries)
                                  THEN "failed" ELSE "sleeping"]
                 ELSE [eBatch[b] EXCEPT !.okAt = eBatch[b].ncalls,
                           !.sawBad = @ \/ BadResponse(r, k),
                           !.st = IF cnt = k THEN "done" ELSE "failed"]
           outs == IF shape = "throw" THEN eOutputs
                   ELSE FillOutputs(eOutputs, eOpts, b, eb, cnt)
           bs == [eBatch EXCEPT ![b] = nb]
           waveDone == \A x \in WaveBatches(eOpts, eWave) : bs[x].st = "done"
       IN  /\ eOutputs' = outs
           /\ IF epc = "running" /\ nb.st = "failed"
              THEN \* Promise.all rejects
                   /\ epc' = "rejected"
                   /\ eBatch' = bs
                   /\ UNCHANGED <<eWave, eResult>>
              ELSE IF epc = "running" /\ waveDone /\ eWave < NumWaves(eOpts)
              THEN \* next group
                   /\ eWave' = eWave + 1
                   /\ eBatch' = [x \in DOMAIN bs |->
                                   IF x \in WaveBatches(eOpts, eWave + 1)
                                   THEN LaunchedBatch ELSE bs[x]]
                   /\ UNCHANGED <<epc, eResult>>
              ELSE IF epc = "running" /\ waveDone
              THEN \* outputs.map: throws on a null entry
                   /\ eBatch' = bs
                   /\ IF \E i \in 1..Len(outs) : outs[i] = NullItem
                      THEN epc' = "rejected" /\ eResult' = eResult
                      ELSE epc' = "resolved" /\ eResult' = outs
                   /\ eWave' = eWave
              ELSE /\ eBatch' = bs
                   /\ UNCHANGED <<epc, eWave, eResult>>
    /\ UNCHANGED eOpts
    /\ UNCHANGED notEmbedVars

BatchIds == 1..MaxTexts

EmbedNext ==
    \/ EmbedCall
    \/ \E b \in BatchIds : \E r \in Responses(MaxBatchSize) \cup Responses(1) :
          ServiceResponds(b, r)
    \/ \E b \in BatchIds : BackoffElapsed(b)
    \/ \E b \in BatchIds : BatchResume(b)

EmbedSpec == EmbedInit /\ [][EmbedNext]_vars

-----------------------------------------------------------------------------
(* Properties of createHuggingFaceEmbeddings                               *)

BatchOf(i) == ((i - 1) \div eOpts.batchSize) + 1

\* the vector that the last answer to batch b carries for the batch's j-th input
Served(b, j) ==
    IF eBatch[b].resp.t = "flat" THEN eBatch[b].resp.vs[1] ELSE eBatch[b].resp.vs[j]

\* C14: a successful batch embedding returns exactly one item per input, in
\* input order: item i holds text i and the vector the service returned for
\* text i (divided by its norm when normalisation is on), whatever the order
\* in which the concurrent group calls completed.
C14_OutputOrderIsInputOrder ==
    epc = "resolved" =>
        /\ Len(eResult) = eOpts.n
        /\ \A i \in 1..eOpts.n :
              /\ eResult[i].content = i
              /\ eResult[i].embedding =
                    FinalEmbedding(eOpts.normalize,
                                   Served(BatchOf(i), i - BatchStart(eOpts, BatchOf(i))))

\* a resolved call of three texts in batches of two, both batches in one group,
\* whose first two vectors differ
C14_Witness ==
    /\ epc = "resolved"
    /\ eOpts.n >= 3
    /\ eOpts.batchSize = 2
    /\ eOpts.concurrency >= 2
    /\ eResult[1].embedding # eResult[2].embedding

\* C15: a group call is issued at most maxRetries + 1 times and not again
\* after an attempt succeeded; when a group has used up its attempts (or
\* failed otherwise) the operation has rejected, and a resolved operation
\* holds one non-null item per input.
C15_RetryBoundedAndAllOrNothing ==
    /\ \A b \in DOMAIN eBatch :
          /\ eBatch[b].ncalls <= eOpts.maxRetries + 1
          /\ eBatch[b].okAt # 0 => eBatch[b].ncalls = eBatch[b].okAt
          /\ eBatch[b].attempt > eOpts.maxRetries => eBatch[b].st = "failed"
          /\ eBatch[b].st = "failed" => epc = "rejected" /\ eResult = <<>>
    /\ epc = "resolved" =>
          /\ Len(eResult) = eOpts.n
          /\ \A i \in 1..Len(eResult) : eResult[i] # NullItem

\* a group used up a retry and then all its attempts while another group's
\* vectors were already stored: the operation rejected
C15_Witness ==
    /\ epc = "rejected"
    /\ eOpts.maxRetries >= 1
    /\ \E b \in DOMAIN eBatch :
          /\ eBatch[b].attempt = eOpts.maxRetries + 1
          /\ eBatch[b].ncalls = eOpts.maxRetries + 1
    /\ \E i \in 1..Len(eOutputs) : eOutputs[i] # NullItem

\* number of calls to the embedding service that are outstanding
InFlight == Cardinality({b \in DOMAIN eBatch : eBatch[b].st = "inflight"})

\* group members that have started and not ended
Active == Cardinality({b \in DOMAIN eBatch :
                          eBatch[b].st \in {"inflight", "responded", "sleeping"}})

\* C27: at every moment of a batch embedding operation at most
\* `concurrency` calls to the embedding service are in flight (and at most
\* that many group members are running).
C27_BoundedConcurrency ==
    /\ InFlight <= eOpts.concurrency
    /\ Active <= eOpts.concurrency

\* an operation with more batches than the concurrency has as many calls in
\* flight as the concurrency allows while a further batch waits
C27_Witness ==
    /\ epc = "running"
    /\ eOpts.concurrency = 2
    /\ InFlight = 2
    /\ \E b \in DOMAIN eBatch : eBatch[b].st = "idle"

\* C28: a batch embedding operation resolves only if every answer the
\* service gave to a group call carried exactly one vector per input, all
\* of numbers.
C28_BadResponseFailsOperation ==
    epc = "resolved" => \A b \in DOMAIN eBatch : ~eBatch[b].sawBad

\* C34: once the batch embedding operation has rejected, no request of that
\* operation is sent to the embedding service any more: no group member
\* calls the service again after the failure was reported to the caller.
C34_NoCallAfterRejection ==
    \A b \in DOMAIN eBatch : ~eBatch[b].lateCall

-----------------------------------------------------------------------------
(* IngestSpec and SaveSpec: POST /api/process-pdf and saveEmbeddings.      *)
(* A file is described by what the validator reads of it; a row of         *)
(* saveEmbeddings by the length of its embedding.                          *)

MAX_FILE_BYTES == 10485760
MIN_EXTRACTED_CHARS == 50
MIN_PAGES == 1
MAX_PAGES == 12
MAX_CHUNKS == 2000
MIN_CHUNK_COUNT == 1
DEFAULT_CHUNK_SIZE_CHARS == 500
DEFAULT_CHUNK_OVERLAP_CHARS == 200
DefaultSaveBatchSize == 50

ALLOWED_MIME == {"application/pdf", "application/x-pdf"}

Max(a, b) == IF a >= b THEN a ELSE b

Ceil(a, b) == (a + b - 1) \div b

\* the longest text whose chunk estimate is within MAX_CHUNKS
LongText == MAX_CHUNKS * (DEFAULT_CHUNK_SIZE_CHARS - DEFAULT_CHUNK_OVERLAP_CHARS)

Files ==
    {NoFile} \cup
    [present : {TRUE},
     mime : {"application/pdf", "text/plain"},
     size : {MAX_FILE_BYTES, MAX_FILE_BYTES + 1},
     header : {"%PDF", "PK"},
     parses : BOOLEAN,
     numPages : {0, MIN_PAGES, MAX_PAGES, MAX_PAGES + 1},
     textLen : {0, MIN_EXTRACTED_CHARS - 1, MIN_EXTRACTED_CHARS, LongText, LongText + 1}]

estimatedChunks(textLen) ==
    Max(MIN_CHUNK_COUNT,
        Ceil(textLen, Max(1, DEFAULT_CHUNK_SIZE_CHARS - DEFAULT_CHUNK_OVERLAP_CHARS)))

\* the condition under which a check of the validator throws
Fails(check, f) ==
    CASE check = "file" -> ~f.present
      [] check = "mime" -> f.mime \notin ALLOWED_MIME
      [] check = "size" -> f.size > MAX_FILE_BYTES
      [] check = "header" -> f.header # "%PDF"
      [] check = "parse" -> ~f.parses
      [] check = "minPages" -> f.numPages < MIN_PAGES
      [] check = "maxPages" -> f.numPages > MAX_PAGES
      [] check = "text" -> f.textLen < MIN_EXTRACTED_CHARS
      [] check = "estimate" -> estimatedChunks(f.textLen) > MAX_CHUNKS

\* the ValidationError a check throws
ValidationError(check) ==
    CASE check = "file" -> [status |-> 400, code |-> "NO_FILE", success |-> FALSE]
      [] check = "mime" -> [status |-> 400, code |-> "INVALID_MIME", success |-> FALSE]
      [] check = "size" -> [status |-> 413, code |-> "FILE_TOO_LARGE", success |-> FALSE]
      [] check = "header" -> [status |-> 400, code |-> "INVALID_PDF_HEADER", success |-> FALSE]
      [] check = "parse" -> [status |-> 400, code |-> "PDF_PARSE_ERROR", success |-> FALSE]
      [] check = "minPages" -> [status |-> 400, code |-> "PDF_TOO_FEW_PAGES", success |-> FALSE]
      [] check = "maxPages" -> [status |-> 413, code |-> "PDF_TOO_MANY_PAGES", success |-> FALSE]
      [] check = "text" -> [status |-> 400, code |-> "PDF_NO_EXTRACTABLE_TEXT", success |-> FALSE]
      [] check = "estimate" -> [status |-> 413, code |-> "TOO_MANY_CHUNKS", success |-> FALSE]

\* the checks run one after the other until one throws
RECURSIVE RunChecks(_, _)
RunChecks(checks, f) ==
    IF checks = <<>> THEN [steps |-> <<>>, failed |-> "none"]
    ELSE IF Fails(Head(checks), f) THEN [steps |-> <<Head(checks)>>, failed |-> Head(checks)]
    ELSE LET rest == RunChecks(Tail(checks), f)
         IN  [steps |-> <<Head(checks)>> \o rest.steps, failed |-> rest.failed]

\* variant: the size is looked at only once the bytes are in memory
FileChecks_sizeAfterRead == <<"file", "mime">>

\* validateFileToBuffer before file.arrayBuffer()
FileChecks == <<"file", "mime", "size">>

\* validateFileToBuffer after file.arrayBuffer()
BufferChecks == <<"header">>

\* validatePdfQuick after extractTextFromPDF returned
ContentChecks == <<"minPages", "maxPages", "text", "estimate">>

Failure500 == [status |-> 500, code |-> "", success |-> FALSE]

Success200 == [status |-> 200, code |-> "", success |-> TRUE]

saveVars == <<svpc, sRows, sBatchSize, sNext, sInserts, sPersisted>>

IngestInit ==
    /\ ipc = "recv"
    /\ iFile \in Files
    /\ RouteFresh
    /\ SaveIdle
    /\ QueryIdle
    /\ MergeIdle
    /\ EmbedIdle
    /\ ChunkIdle
    /\ PromptIdle
    /\ TimedIdle

\* POST up to the first await of the validator: file.arrayBuffer()
POST_ValidateFile ==
    /\ ipc = "recv"
    /\ LET r == RunChecks(FileChecks, iFile)
       IN  IF r.failed # "none"
           THEN /\ iSteps' = r.steps
                /\ iResp' = ValidationError(r.failed)
                /\ ipc' = "responded"
           ELSE /\ iSteps' = r.steps \o <<"read">>
                /\ iResp' = iResp
                /\ ipc' = "reading"
    /\ UNCHANGED <<iFile, iEmbedCalls, iChunks, iEmb, documents, saveVars>>
    /\ UNCHANGED notIngestVars

\* the bytes are in memory: header check, then extractTextFromPDF is called
BufferRead ==
    /\ ipc = "reading"
    /\ LET r == RunChecks(BufferChecks, iFile)
       IN  IF r.failed # "none"
           THEN /\ iSteps' = iSteps \o r.steps
                /\ iResp' = ValidationError(r.failed)
                /\ ipc' = "responded"
           ELSE /\ iSteps' = iSteps \o r.steps \o <<"parse">>
                /\ iResp' = iResp
                /\ ipc' = "parsing"
    /\ UNCHANGED <<iFile, iEmbedCalls, iChunks, iEmb, documents, saveVars>>
    /\ UNCHANGED notIngestVars

\* extractTextFromPDF settled: the content validations, then chunkText is called
ParseSettled ==
    /\ ipc = "parsing"
    /\ LET r == IF Fails("parse", iFile)
                THEN [steps |-> <<>>, failed |-> "parse"]
                ELSE RunChecks(ContentChecks, iFile)
       IN  /\ iSteps' = iSteps \o r.steps
           /\ IF r.failed # "none"
              THEN iResp' = ValidationError(r.failed) /\ ipc' = "responded"
              ELSE iResp' = iResp /\ ipc' = "chunking"
    /\ UNCHANGED <<iFile, iEmbedCalls, iChunks, iEmb, documents, saveVars>>
    /\ UNCHANGED notIngestVars

\* numbers of chunks of a document: a few, or one more than a save batch
ChunkCounts == 1..MaxSaveRows \cup {DefaultSaveBatchSize + 1}

\* chunkText settled; the page mapping is computed and
\* createHuggingFaceEmbeddings is called
ChunkSettled(outcome, n) ==
    /\ ipc = "chunking"
    /\ n \in ChunkCounts
    /\ IF outcome = "reject"
       THEN /\ iResp' = Failure500 /\ ipc' = "responded" /\ iChunks' = iChunks
            /\ iEmbedCalls' = iEmbedCalls
       ELSE /\ iResp' = iResp /\ ipc' = "embedding" /\ iChunks' = n
            /\ iEmbedCalls' = iEmbedCalls + 1
    /\ UNCHANGED <<iFile, iSteps, iEmb, documents, saveVars>>
    /\ UNCHANGED notIngestVars

\* lengths of the vectors of n embeddings: the first vector of a batch is not
\* empty (embedBatch); a large document has vectors of one length
EmbeddingDims(n) ==
    IF n <= MaxSaveRows
    THEN {e \in [1..n -> {0, 2, 3}] : e[1] # 0}
    ELSE {[i \in 1..n |-> 2]}

\* variant: the document row is written before the embeddings are awaited
EmbeddingsSettled_docFirst(outcome, e) ==
    /\ ipc = "embedding"
    /\ e \in EmbeddingDims(iChunks)
    /\ documents' = documents + 1
    /\ IF outcome = "reject"
       THEN iResp' = Failure500 /\ ipc' = "responded" /\ iEmb' = iEmb
       ELSE iResp' = iResp /\ ipc' = "insertingDoc" /\ iEmb' = e
    /\ UNCHANGED <<iFile, iEmbedCalls, iSteps, iChunks, saveVars>>
    /\ UNCHANGED notIngestVars

\* createHuggingFaceEmbeddings settled; the pdf_documents insert is issued
EmbeddingsSettled(outcome, e) ==
    /\ ipc = "embedding"
    /\ e \in EmbeddingDims(iChunks)
    /\ IF outcome = "reject"
       THEN iResp' = Failure500 /\ ipc' = "responded" /\ iEmb' = iEmb
       ELSE iResp' = iResp /\ ipc' = "insertingDoc" /\ iEmb' = e
    /\ UNCHANGED <<iFile, iEmbedCalls, iSteps, iChunks, documents, saveVars>>
    /\ UNCHANGED notIngestVars

DimsOf(rows) == {rows[i] : i \in 1..Len(rows)}

\* variant: only the first row's dimension is looked at
DimsOk_firstOnly(rows) == rows[1] > 0

\* uniqueDims.length === 1 and dim > 0
DimsOk(rows) == Cardinality(DimsOf(rows)) = 1 /\ \A dim \in DimsOf(rows) : dim > 0

\* saveEmbeddings up to its first await
SaveEntry(rows) ==
    IF rows = <<>> THEN "returned"
    ELSE IF ~DimsOk(rows) THEN "threw"
    ELSE "inflight"

\* rows.slice(i, i + batchSize).length
SliceLen(rows, i, batchSize) ==
    IF i + batchSize <= Len(rows) THEN batchSize ELSE Len(rows) - i

\* the response of POST once saveEmbeddings has settled
AfterSave(pc2) == IF pc2 = "returned" THEN Success200 ELSE Failure500

\* the pdf_documents insert settled; saveEmbeddings is called and runs to
\* its first await
DocInsertSettled(outcome) ==
    /\ ipc = "insertingDoc"
    /\ IF outcome = "error"
       THEN /\ iResp' = Failure500
            /\ ipc' = "responded"
            /\ UNCHANGED <<documents, saveVars>>
       ELSE /\ documents' = documents + 1
            /\ sRows' = iEmb
            /\ sBatchSize' = DefaultSaveBatchSize
            /\ sNext' = 0
            /\ sPersisted' = 0
            /\ svpc' = SaveEntry(iEmb)
            /\ sInserts' = IF SaveEntry(iEmb) = "inflight" THEN 1 ELSE 0
            /\ IF SaveEntry(iEmb) = "inflight"
               THEN iResp' = iResp /\ ipc' = "saving"
               ELSE iResp' = AfterSave(SaveEntry(iEmb)) /\ ipc' = "responded"
    /\ UNCHANGED <<iFile, iEmbedCalls, iSteps, iChunks, iEmb>>
    /\ UNCHANGED notIngestVars

\* a direct call of saveEmbeddings runs to its first await
SaveCall ==
    /\ svpc = "called"
    /\ svpc' = SaveEntry(sRows)
    /\ sInserts' = IF SaveEntry(sRows) = "inflight" THEN 1 ELSE 0
    /\ UNCHANGED <<sRows, sBatchSize, sNext, sPersisted>>
    /\ UNCHANGED <<ipc, iFile, iEmbedCalls, iSteps, iChunks, iEmb, iResp, documents>>
    /\ UNCHANGED notIngestVars

\* variant: a failed insert undoes the earlier batches
InsertFailed_rollback(persisted) == 0

\* if (error) throw: the rows of the earlier batches stay
InsertFailed(persisted) == persisted

\* the insert of a batch into pdf_chunks settled; saveEmbeddings issues the
\* next insert, returns or throws, and POST (when it is the caller) responds
FragmentInsertSettled(outcome) ==
    /\ svpc = "inflight"
    /\ LET pc2 == IF outcome = "error" THEN "threw"
                  ELSE IF sNext + sBatchSize < Len(sRows) THEN "inflight"
                  ELSE "returned"
       IN  /\ svpc' = pc2
           /\ IF outcome = "error"
              THEN /\ sPersisted' = InsertFailed(sPersisted)
                   /\ UNCHANGED <<sNext, sInserts>>
              ELSE /\ sPersisted' = sPersisted + SliceLen(sRows, sNext, sBatchSize)
                   /\ sNext' = sNext + sBatchSize
                   /\ sInserts' = IF pc2 = "inflight" THEN sInserts + 1 ELSE sInserts
           /\ IF ipc = "saving" /\ pc2 # "inflight"
              THEN iResp' = AfterSave(pc2) /\ ipc' = "responded"
              ELSE UNCHANGED <<iResp, ipc>>
    /\ UNCHANGED <<sRows, sBatchSize, iFile, iEmbedCalls, iSteps, iChunks, iEmb, documents>>
    /\ UNCHANGED notIngestVars

SettleOutcomes == {"ok", "reject"}

InsertOutcomes == {"ok", "error"}

IngestNext ==
    \/ POST_ValidateFile
    \/ BufferRead
    \/ ParseSettled
    \/ \E o \in SettleOutcomes, n \in ChunkCounts : ChunkSettled(o, n)
    \/ \E o \in SettleOutcomes, e \in UNION {EmbeddingDims(n) : n \in ChunkCounts} :
          EmbeddingsSettled(o, e)
    \/ \E o \in InsertOutcomes : DocInsertSettled(o)
    \/ \E o \in InsertOutcomes : FragmentInsertSettled(o)

IngestSpec == IngestInit /\ [][IngestNext]_vars

SaveBatchSizes == {1, 2, DefaultSaveBatchSize}

SaveInit ==
    /\ svpc = "called"
    /\ sRows \in SeqsUpTo({0, 2, 3}, MaxSaveRows)
    /\ sBatchSize \in SaveBatchSizes
    /\ sNext = 0
    /\ sInserts = 0
    /\ sPersisted = 0
    /\ RouteIdle
    /\ QueryIdle
    /\ MergeIdle
    /\ EmbedIdle
    /\ ChunkIdle
    /\ PromptIdle
    /\ TimedIdle

SaveNext ==
    \/ SaveCall
    \/ \E o \in InsertOutcomes : FragmentInsertSettled(o)

SaveSpec == SaveInit /\ [][SaveNext]_vars

-----------------------------------------------------------------------------
(* Properties of saveEmbeddings and of POST /api/process-pdf               *)

\* the rows' vectors are not all of one length, or their length is 0
BadDims ==
    \E i, j \in 1..Len(sRows) : sRows[i] # sRows[j] \/ sRows[i] <= 0

\* C16: saveEmbeddings called with rows whose vectors differ in length, or
\* whose common length is 0, throws before it issues an insert: no insert
\* call is made and no row is persisted.
C16_BadDimsNothingPersisted ==
    (svpc # "off" /\ BadDims) =>
        /\ sInserts = 0
        /\ sPersisted = 0
        /\ svpc \in {"called", "threw"}

\* the call threw on rows of mixed lengths whose first vector is not empty
C16_Witness ==
    /\ svpc = "threw"
    /\ Len(sRows) >= 2
    /\ sRows[1] > 0
    /\ sRows[2] # sRows[1]
    /\ sInserts = 0

\* C17: when POST has responded, a Document row exists exactly when the
\* response is the success response, and then all fragments of the document
\* are persisted.
C17_DocumentOnlyWithAllFragments ==
    /\ documents <= 1
    /\ ipc = "responded" =>
          /\ documents = 1 <=> iResp.success
          /\ documents = 1 => sPersisted = Len(iEmb)

ValidatorOrder ==
    <<"file", "mime", "size", "read", "header", "parse",
      "minPages", "maxPages", "text", "estimate">>

\* the code of the first check, in the validator's order, that the file fails
ExpectedCode(f) ==
    IF ~f.present THEN "NO_FILE"
    ELSE IF f.mime # "application/pdf" /\ f.mime # "application/x-pdf" THEN "INVALID_MIME"
    ELSE IF f.size > MAX_FILE_BYTES THEN "FILE_TOO_LARGE"
    ELSE IF f.header # "%PDF" THEN "INVALID_PDF_HEADER"
    ELSE IF ~f.parses THEN "PDF_PARSE_ERROR"
    ELSE IF f.numPages < MIN_PAGES THEN "PDF_TOO_FEW_PAGES"
    ELSE IF f.numPages > MAX_PAGES THEN "PDF_TOO_MANY_PAGES"
    ELSE IF f.textLen < MIN_EXTRACTED_CHARS THEN "PDF_NO_EXTRACTABLE_TEXT"
    ELSE IF f.textLen > LongText THEN "TOO_MANY_CHUNKS"
    ELSE ""

\* the step at which a code is thrown
StepOfCode(code) ==
    CASE code = "NO_FILE" -> "file"
      [] code = "INVALID_MIME" -> "mime"
      [] code = "FILE_TOO_LARGE" -> "size"
      [] code = "INVALID_PDF_HEADER" -> "header"
      [] code = "PDF_PARSE_ERROR" -> "parse"
      [] code = "PDF_TOO_FEW_PAGES" -> "minPages"
      [] code = "PDF_TOO_MANY_PAGES" -> "maxPages"
      [] code = "PDF_NO_EXTRACTABLE_TEXT" -> "text"
      [] code = "TOO_MANY_CHUNKS" -> "estimate"

\* C18: the validator's steps run in the order media type, size, (read of
\* the bytes,) header signature, parse, page count, extracted-text length,
\* chunk estimate; the response carries the code of the first check the
\* file fails, and no step after that check was executed.  In particular a
\* file over the size ceiling gets the size code (413) and its bytes are
\* neither read nor parsed.
C18_ValidatorOrder ==
    /\ Len(iSteps) <= Len(ValidatorOrder)
    /\ iSteps = SubSeq(ValidatorOrder, 1, Len(iSteps))
    /\ ipc = "responded" =>
          /\ iResp.code = "" => ExpectedCode(iFile) = ""
          /\ iResp.code # "" =>
                /\ iResp.code = ExpectedCode(iFile)
                /\ iSteps[Len(iSteps)] = StepOfCode(iResp.code)
                /\ documents = 0 /\ svpc = "off"
          /\ iResp.code = "FILE_TOO_LARGE" =>
                /\ iResp.status = 413
                /\ \A k \in 1..Len(iSteps) : iSteps[k] \notin {"read", "header", "parse"}

\* a file over the ceiling that would also fail the header check and the
\* parse was rejected for its size
C18_Witness ==
    /\ ipc = "responded"
    /\ iResp.code = "FILE_TOO_LARGE"
    /\ iFile.size > MAX_FILE_BYTES
    /\ iFile.header # "%PDF"
    /\ ~iFile.parses
    /\ iSteps = <<"file", "mime", "size">>

\* C39: a request that fails validation calls neither the embedding
\* operation nor the store; a request whose embedding operation fails
\* writes nothing to the store; the document insert and the fragment
\* inserts are issued only when an embedding of every chunk was obtained.
C39_WritesOnlyAfterEmbeddings ==
    /\ (ipc = "responded" /\ iResp.code # "") =>
          iEmbedCalls = 0 /\ documents = 0 /\ sInserts = 0 /\ sPersisted = 0
    /\ (ipc = "responded" /\ iEmbedCalls = 1 /\ iEmb = <<>>) =>
          documents = 0 /\ sInserts = 0 /\ sPersisted = 0
    /\ (ipc \in {"insertingDoc", "saving"} \/ documents > 0 \/ sInserts > 0) =>
          iEmbedCalls = 1 /\ iChunks > 0 /\ Len(iEmb) = iChunks

\* the embedding operation failed: status 500, nothing written
C39_Witness ==
    /\ ipc = "responded"
    /\ iResp = Failure500
    /\ iEmbedCalls = 1
    /\ iEmb = <<>>
    /\ documents = 0
    /\ sInserts = 0

\* C36: when saveEmbeddings throws because an insert failed, the rows
\* persisted by the call are those of the batches before the failing one
\* (the first rows of the input, a multiple of batchSize in number): the
\* earlier batches are kept and the failing insert was the last one issued.
C36_FailedInsertKeepsPrefix ==
    (svpc = "threw" /\ sInserts >= 1) =>
        /\ sPersisted = (sInserts - 1) * sBatchSize
        /\ sPersisted = sNext
        /\ sPersisted < Len(sRows)

\* the second of three inserts failed: one batch is persisted, the third
\* batch was never sent
C36_Witness ==
    /\ svpc = "threw"
    /\ sInserts = 2
    /\ sPersisted = sBatchSize
    /\ Len(sRows) > 2 * sBatchSize

-----------------------------------------------------------------------------
(* ChunkSpec: chunkText, then approximatePagesForChunks.                   *)
(* A text is a sequence of characters.  The splitter (a library) returns   *)
(* non-empty substrings of the text, later chunks starting and ending      *)
(* later, possibly overlapping.  Offsets are 0-based as in the code.       *)

Alphabet == {"a", "b"}

Texts0 == SeqsUpTo(Alphabet, MaxTextLen)

\* the non-empty windows [s, e) of a text of n characters
Windows(n) == {x \in [s : 0..n, e : 0..n] : x.s < x.e}

\* w starts and ends after the last window of ws
Extends(ws, w) ==
    ws = <<>> \/ (ws[Len(ws)].s < w.s /\ ws[Len(ws)].e < w.e)

\* sequences of exactly k windows, starts and ends increasing
RECURSIVE WindowSeqs(_, _)
WindowSeqs(n, k) ==
    IF k = 0 THEN {<<>>}
    ELSE {Append(x[1], x[2]) :
             x \in {y \in WindowSeqs(n, k - 1) \X Windows(n) : Extends(y[1], y[2])}}

\* the windows that splitter.splitText may cut out of a text
SplitterWindows == UNION {WindowSeqs(MaxTextLen, k) : k \in 0..MaxPieces}

\* the chunks of the windows ws of a text
PiecesOf(text, ws) == [i \in 1..Len(ws) |-> SubSeq(text, ws[i].s + 1, ws[i].e)]

MinOf(S) == CHOOSE x \in S : \A y \in S : x <= y

\* text.indexOf(chunk, from) for a non-empty chunk
IndexOf(text, chunk, from) ==
    LET found == {q \in from..(Len(text) - Len(chunk)) :
                     SubSeq(text, q + 1, q + Len(chunk)) = chunk}
    IN  IF found = {} THEN -1 ELSE MinOf(found)

\* variant: a chunk that is not found is placed at the start of the text
StartOf_zero(foundAt, cursor) == IF foundAt >= 0 THEN foundAt ELSE 0

\* const start = foundAt >= 0 ? foundAt : cursor
StartOf(foundAt, cursor) == IF foundAt >= 0 THEN foundAt ELSE cursor

\* the loop of chunkText from its i-th iteration (i counted from 0) on
RECURSIVE ChunkLoop(_, _, _, _)
ChunkLoop(text, pieces, i, cursor) ==
    IF i >= Len(pieces) THEN <<>>
    ELSE LET chunk == pieces[i + 1]
             start == StartOf(IndexOf(text, chunk, cursor), cursor)
             end == start + Len(chunk)
         IN  <<[content |-> chunk, chunkIndex |-> i, charStart |-> start,
                charEnd |-> end, page |-> 0]>>
             \o ChunkLoop(text, pieces, i + 1, end)

\* variant: the computed page is returned as it is
ClampPage_none(page, numPages) == page

\* Math.min(Math.max(1, page), numPages)
ClampPage(page, numPages) ==
    LET atLeast1 == Max(1, page) IN IF atLeast1 <= numPages THEN atLeast1 ELSE numPages

\* Math.floor((c.charStart / totalChars) * numPages) + 1, clamped
PageOfChunk(charStart, textLen, numPages) ==
    ClampPage(((charStart * numPages) \div Max(textLen, 1)) + 1, numPages)

approximatePagesForChunks(text, numPages, chunksMeta) ==
    [i \in 1..Len(chunksMeta) |->
        [chunksMeta[i] EXCEPT !.page = PageOfChunk(chunksMeta[i].charStart, Len(text), numPages)]]

ChunkInit ==
    /\ cpc = "called"
    /\ cIn \in [text : Texts0, pieces : {<<>>}, numPages : 1..MaxNumPages]
    /\ cOut = <<>>
    /\ QueryIdle
    /\ MergeIdle
    /\ EmbedIdle
    /\ IngestIdle
    /\ PromptIdle
    /\ TimedIdle

\* splitter.splitText settled: chunkText runs its loop and returns
SplitterSettled(ws) ==
    /\ cpc = "called"
    /\ \A i \in 1..Len(ws) : ws[i].e <= Len(cIn.text)
    /\ cIn' = [cIn EXCEPT !.pieces = PiecesOf(cIn.text, ws)]
    /\ cOut' = ChunkLoop(cIn.text, PiecesOf(cIn.text, ws), 0, 0)
    /\ cpc' = "chunked"
    /\ UNCHANGED notChunkVars

\* POST: approximatePagesForChunks(text, numPages, chunks)
PageMapping ==
    /\ cpc = "chunked"
    /\ cOut' = approximatePagesForChunks(cIn.text, cIn.numPages, cOut)
    /\ cpc' = "paged"
    /\ UNCHANGED cIn
    /\ UNCHANGED notChunkVars

ChunkNext ==
    \/ \E ws \in SplitterWindows : SplitterSettled(ws)
    \/ PageMapping

ChunkSpec == ChunkInit /\ [][ChunkNext]_vars

-----------------------------------------------------------------------------
(* Properties of chunkText and of the page mapping *)

\* C19: in every output of chunkText the fragments' charStart values do not
\* decrease, and the chunkIndex of the fragment at position i (counted from
\* 0) is i.
C19_StartsMonotoneIndexContiguous ==
    cpc \in {"chunked", "paged"} =>
        /\ Len(cOut) = Len(cIn.pieces)
        /\ \A i \in 1..Len(cOut) : cOut[i].chunkIndex = i - 1
        /\ \A i \in 1..(Len(cOut) - 1) : cOut[i].charStart <= cOut[i + 1].charStart

\* three fragments, the second of which was not found from the cursor on and
\* was placed at the cursor
C19_Witness ==
    /\ cpc = "chunked"
    /\ Len(cOut) = 3
    /\ cOut[2].charStart = cOut[1].charEnd
    /\ SubSeq(cIn.text, cOut[2].charStart + 1, cOut[2].charEnd) # cOut[2].content

\* C20: every fragment's page is within 1..numPages, also when its
\* charStart is at or beyond the end of the text.
C20_PageWithinDocument ==
    cpc = "paged" =>
        \A i \in 1..Len(cOut) : 1 <= cOut[i].page /\ cOut[i].page <= cIn.numPages

\* a fragment whose charStart is not before the end of the text was mapped
\* to the last page of a document of several pages
C20_Witness ==
    /\ cpc = "paged"
    /\ cIn.numPages >= 2
    /\ \E i \in 1..Len(cOut) :
          /\ cOut[i].charStart >= Len(cIn.text)
          /\ cOut[i].page = cIn.numPages

\* C29: every fragment of a non-empty text has
\* 0 <= charStart < charEnd <= length of the text, also when the chunk
\* overlaps its predecessor and is placed at the cursor.
C29_OffsetsWithinText ==
    (cpc \in {"chunked", "paged"} /\ Len(cIn.text) > 0) =>
        \A i \in 1..Len(cOut) :
            /\ 0 <= cOut[i].charStart
            /\ cOut[i].charStart < cOut[i].charEnd
            /\ cOut[i].charEnd <= Len(cIn.text)

-----------------------------------------------------------------------------
(* PromptSpec: buildSystemPrompt.  A string is a sequence of characters;   *)
(* contents are made of the letter "x" and of spaces, so NFKC, control     *)
(* characters and newlines do not occur in them.  Chunks carry no id, as   *)
(* in the call of POST /api/chat.  A missing similarity is -1; an option   *)
(* that is not given is Undefined.                                         *)

Undefined == -1

Word(n) == [i \in 1..n |-> "x"]

Ellipsis == <<".", ".", ".">>

Separator == <<"LF", "LF">>

RECURSIVE trimEnd(_)
trimEnd(s) ==
    IF s # <<>> /\ s[Len(s)] = " " THEN trimEnd(SubSeq(s, 1, Len(s) - 1)) ELSE s

RECURSIVE trimStart(_)
trimStart(s) ==
    IF s # <<>> /\ Head(s) = " " THEN trimStart(Tail(s)) ELSE s

\* .replace(/[ \t]+/g, " ")
\* each half is collapsed, then the run of spaces across the cut, if any
RECURSIVE CollapseSpaces(_)
CollapseSpaces(s) ==
    IF Len(s) < 2 THEN s
    ELSE LET half == Len(s) \div 2
             left == CollapseSpaces(SubSeq(s, 1, half))
             right == CollapseSpaces(SubSeq(s, half + 1, Len(s)))
         IN  IF left[Len(left)] = " " /\ right[1] = " "
             THEN left \o Tail(right)
             ELSE left \o right

safeNormalize(s) == trimEnd(trimStart(CollapseSpaces(s)))

truncateChars(s, maxChars) ==
    IF Len(s) <= maxChars THEN s
    ELSE trimEnd(SubSeq(s, 1, Max(0, maxChars - 3))) \o Ellipsis

\* the token counters given to the function: one token per character, or
\* one token per started group of four characters
TokenCounters == {"chars", "quarter"}

tokenCounter(tc, s) == IF tc = "chars" THEN Len(s) ELSE Ceil(Len(s), 4)

\* the binary search of truncateTokens
RECURSIVE BinarySearch(_, _, _, _, _, _)
BinarySearch(s, lo, hi, best, maxTokens, tc) ==
    IF lo > hi THEN best
    ELSE LET mid == (lo + hi) \div 2
             candidate == SubSeq(s, 1, mid)
         IN  IF tokenCounter(tc, candidate) <= maxTokens
             THEN BinarySearch(s, mid + 1, hi, candidate, maxTokens, tc)
             ELSE BinarySearch(s, lo, mid - 1, best, maxTokens, tc)

truncateTokens(s, maxTokens, tc) ==
    IF tokenCounter(tc, s) <= maxTokens THEN s
    ELSE LET trimmed == trimEnd(BinarySearch(s, 0, Len(s), <<>>, maxTokens, tc))
         IN  IF Len(trimmed) > 0 THEN trimmed \o Ellipsis ELSE Ellipsis

PageDigit(n) == IF n = 1 THEN "1" ELSE "2"

\* `[Page ${ch.page_number}] `
Header(ch) == <<"[", "P", "a", "g", "e", " ", PageDigit(ch.page_number), "]", " ">>

PromptContents ==
    {<<>>, Word(4), Word(2) \o <<" ">> \o Word(5), Word(12), Word(20),
     <<" ", " ">> \o Word(3) \o <<" ">>}

PromptChunks == [page_number : {1}, similarity : {Undefined, 5}, content : PromptContents]

PromptInputs ==
    [chunks : SeqsUpTo(PromptChunks, MaxPromptChunks),
     maxContextChars : {10, 24, 40},
     maxContextTokens : {Undefined, 6, 24},
     perChunkChars : {8, 3000},
     perChunkTokens : {Undefined, 4},
     tokenCounter : {"none"} \cup TokenCounters,
     sortChunks : BOOLEAN]

\* POST /api/chat: the per-chunk cap and the budget it passes, and the
\* number of rows the strict search asks for
PER_CHUNK_CHARS == 2000
MaxContextChars == 14000
MATCH_COUNT == 8

\* sanitizeText: whitespace collapsed, trimmed, cut to maxLen
sanitizeText(s, maxLen) ==
    LET cleaned == trimEnd(trimStart(CollapseSpaces(s)))
    IN  IF Len(cleaned) > maxLen
        THEN trimEnd(SubSeq(cleaned, 1, maxLen - 3)) \o Ellipsis
        ELSE cleaned

\* truncatedChunksForPrompt: the content POST hands to buildSystemPrompt
PromptContent(content) ==
    sanitizeText(IF Len(content) > PER_CHUNK_CHARS
                 THEN trimEnd(SubSeq(content, 1, PER_CHUNK_CHARS - 3)) \o Ellipsis
                 ELSE content,
                 PER_CHUNK_CHARS)

\* lengths of the contents of the retrieved rows: the default chunk size of
\* the ingestion, and a content beyond the per-chunk cap
RowLengths == {DEFAULT_CHUNK_SIZE_CHARS, PER_CHUNK_CHARS + 1}

\* the calls POST /api/chat makes: chunks carry page_number and content only
RoutePromptCalls ==
    {[chunks |-> [i \in 1..n |-> [page_number |-> 1, similarity |-> Undefined,
                                  content |-> PromptContent(Word(len))]],
      maxContextChars |-> MaxContextChars,
      maxContextTokens |-> Undefined,
      perChunkChars |-> PER_CHUNK_CHARS,
      perChunkTokens |-> Undefined,
      tokenCounter |-> "none",
      sortChunks |-> TRUE] : n \in 1..MATCH_COUNT, len \in RowLengths}

\* sanitize & per-chunk truncation
SafeChunk(c, o) ==
    LET normalized == safeNormalize(c.content)
    IN  [c EXCEPT !.content =
            IF o.tokenCounter # "none" /\ o.perChunkTokens # Undefined
            THEN truncateTokens(normalized, o.perChunkTokens, o.tokenCounter)
            ELSE truncateChars(normalized, o.perChunkChars)]

\* tokenCounter && typeof maxContextTokens === "number"
TokenMode(o) == o.tokenCounter # "none" /\ o.maxContextTokens # Undefined

\* the size that the assembly compares with its budget
SizeOf(o, s) == IF TokenMode(o) THEN tokenCounter(o.tokenCounter, s) ELSE Len(s)

BudgetOf(o) == IF TokenMode(o) THEN o.maxContextTokens ELSE o.maxContextChars

\* variant: a candidate may pass the budget by two
OverBudget_slack(o, candidate) == SizeOf(o, candidate) > BudgetOf(o) + 2

\* candidateTokens > maxContextTokens, candidate.length > maxContextChars
OverBudget(o, candidate) == SizeOf(o, candidate) > BudgetOf(o)

\* first chunk too big: the truncated version that is included
ForcedContent(o, header, content) ==
    IF TokenMode(o)
    THEN truncateTokens(content,
                        Max(8, o.maxContextTokens - tokenCounter(o.tokenCounter, header)),
                        o.tokenCounter)
    ELSE truncateChars(content, Max(8, o.maxContextChars - Len(header) - 5))

\* the assembly loop from its i-th chunk on; acc is the block so far
RECURSIVE Assemble(_, _, _, _)
Assemble(chs, i, acc, o) ==
    IF i > Len(chs) THEN acc
    ELSE LET header == Header(chs[i])
             candidate == IF acc.context # <<>>
                          THEN acc.context \o Separator \o header \o chs[i].content
                          ELSE header \o chs[i].content
         IN  IF OverBudget(o, candidate)
             THEN IF acc.context = <<>>
                  THEN [context |-> header \o ForcedContent(o, header, chs[i].content),
                        count |-> 1, forced |-> TRUE,
                        cut |-> ForcedContent(o, header, chs[i].content) # chs[i].content]
                  ELSE acc
             ELSE Assemble(chs, i + 1,
                           [context |-> candidate, count |-> acc.count + 1,
                            forced |-> FALSE, cut |-> FALSE], o)

\* the context block of buildSystemPrompt: none for an empty chunk list
ContextBlock(o) ==
    IF o.chunks = <<>> THEN NoPromptOut
    ELSE LET workingChunks == IF o.sortChunks THEN SortDesc(o.chunks) ELSE o.chunks
             safeChunks == [i \in 1..Len(workingChunks) |-> SafeChunk(workingChunks[i], o)]
         IN  Assemble(safeChunks, 1, NoPromptOut, o)

PromptInit ==
    /\ ppc = "called"
    /\ pIn \in PromptInputs \cup RoutePromptCalls
    /\ pOut = NoPromptOut
    /\ QueryIdle
    /\ MergeIdle
    /\ EmbedIdle
    /\ IngestIdle
    /\ ChunkIdle
    /\ TimedIdle

buildSystemPrompt ==
    /\ ppc = "called"
    /\ ppc' = "returned"
    /\ pOut' = ContextBlock(pIn)
    /\ UNCHANGED pIn
    /\ UNCHANGED notPromptVars

PromptNext == buildSystemPrompt

PromptSpec == PromptInit /\ [][PromptNext]_vars

-----------------------------------------------------------------------------
(* Properties of buildSystemPrompt *)

C30_ForcedTruncationFits ==
    ppc = "returned" =>
        /\ pIn.chunks # <<>> => pOut.context # <<>>
        /\ pOut.forced => SizeOf(pIn, pOut.context) <= BudgetOf(pIn)

\* C35: POST /api/chat lists one source per retrieved fragment; every
\* fragment in the sources metadata is in the context block built for the
\* same fragments, also when the budget ends the assembly early.
C35_SourcesAreInContext ==
    (ppc = "returned" /\ pIn \in RoutePromptCalls) =>
        pOut.count = Len(pIn.chunks)

-----------------------------------------------------------------------------
(* TimedSpec: the timed calls of retrieveChunks.  withTimeout wraps         *)
(* getEmbedding (which races the inference call against its own timer),    *)
(* withTimeoutPromise wraps the strict vector search.  Time is counted in  *)
(* milliseconds and advances by seconds; a timer fires once its deadline   *)
(* is reached, timers that are due fire in the order of their deadlines    *)
(* and, for equal deadlines, in the order they were set.  What follows the *)
(* strict search in retrieveChunks is modelled in Spec.                    *)

EMBEDDING_TIMEOUT_MS == 5000
RPC_TIMEOUT_MS == 5000
\* timeoutMs of getEmbedding
timeoutMs == 5000

MaxTimeMs == 11000

\* values of process.env.EMBEDDING_TIMEOUT_MS: a shorter one, the default,
\* a longer one
EmbeddingTimeouts == {2000, EMBEDDING_TIMEOUT_MS, 8000}

\* the order in which the timers are set
TimerSeq(t) == CASE t = "abort" -> 1 [] t = "inner" -> 2 [] OTHER -> 3

Due(t) == tTimers[t].state = "armed" /\ tTimers[t].at <= tNow

FiresNext(t) ==
    /\ Due(t)
    /\ \A u \in DOMAIN tTimers \ {t} :
          Due(u) => \/ tTimers[t].at < tTimers[u].at
                    \/ tTimers[t].at = tTimers[u].at /\ TimerSeq(t) < TimerSeq(u)

setTimeout(ms) == [state |-> "armed", at |-> tNow + ms]

clearTimeout(tm) == IF tm.state = "armed" THEN [tm EXCEPT !.state = "cleared"] ELSE tm

Fired(tm) == [tm EXCEPT !.state = "fired"]

\* the errors of the underlying calls; cause is a history field
EmbeddingRaceTimeout ==
    [name |-> "Error", message |-> "Embedding timeout", cause |-> "embedTimeout"]

ServiceError ==
    [name |-> "ProviderError", message |-> "inference failed", cause |-> "embedService"]

RpcTimeout ==
    [name |-> "Error", message |-> "Supabase initial timeout", cause |-> "rpcTimeout"]

RpcError ==
    [name |-> "Error", message |-> "fetch failed", cause |-> "rpcService"]

\* the catch of withTimeout: an AbortError becomes Error(errorMsg), any
\* other error is rethrown
withTimeoutCatch(err) ==
    IF err.name = "AbortError"
    THEN [err EXCEPT !.name = "Error", !.message = "getEmbedding timeout"]
    ELSE err

\* retrieveChunks, catch of step 1
EmbeddingCatch(err) ==
    [err EXCEPT !.name = "Error", !.message = "Failed to compute query embedding."]

\* retrieveChunks, catch of step 2
StrictCatch(err) ==
    [err EXCEPT !.name = "Error", !.message = "Supabase error (initial)"]

\* retrieveChunks, outer catch
RetrievalCatch(err) == [err EXCEPT !.name = "Error", !.message = RetrievalFailed]

\* what the caller of retrieveChunks can see of an error
Surface(err) == [name |-> err.name, message |-> err.message]

TimedInit ==
    /\ tpc = "called"
    /\ tTimeout \in EmbeddingTimeouts
    /\ TimedFresh
    /\ QueryIdle
    /\ MergeIdle
    /\ EmbedIdle
    /\ IngestIdle
    /\ ChunkIdle
    /\ PromptIdle

\* retrieveChunks up to its first await: withTimeout sets the abort timer and
\* calls getEmbedding, which starts the inference call and its own timer
retrieveChunks_Call ==
    /\ tpc = "called"
    /\ tpc' = "embedding"
    /\ tTimers' = [tTimers EXCEPT !["abort"] = setTimeout(tTimeout),
                                  !["inner"] = setTimeout(timeoutMs)]
    /\ tCalls' = [tCalls EXCEPT !["hf"] = "inflight"]
    /\ tGet' = "pending"
    /\ UNCHANGED <<tTimeout, tNow, tAborted, tErr>>
    /\ UNCHANGED notTimedVars

\* getEmbedding rejected: withTimeout clears its timer and rethrows, the two
\* catch blocks of retrieveChunks wrap the error
EmbeddingFails(err) ==
    /\ tpc' = "threw"
    /\ tGet' = "rejected"
    /\ tErr' = RetrievalCatch(EmbeddingCatch(withTimeoutCatch(err)))

\* withTimeout's timer: controller.abort().  The signal was handed to
\* getEmbedding, which passes it to nothing: no listener runs
AbortTimerFires ==
    /\ FiresNext("abort")
    /\ tTimers' = [tTimers EXCEPT !["abort"] = Fired(@)]
    /\ tAborted' = TRUE
    /\ UNCHANGED <<tpc, tTimeout, tNow, tCalls, tGet, tErr>>
    /\ UNCHANGED notTimedVars

\* getEmbedding's timer rejects its side of the race
RaceTimerFires ==
    /\ FiresNext("inner")
    /\ IF tGet = "pending"
       THEN /\ EmbeddingFails(EmbeddingRaceTimeout)
            /\ tTimers' = [tTimers EXCEPT !["inner"] = Fired(@),
                                          !["abort"] = clearTimeout(@)]
       ELSE /\ tTimers' = [tTimers EXCEPT !["inner"] = Fired(@)]
            /\ UNCHANGED <<tpc, tGet, tErr>>
    /\ UNCHANGED <<tTimeout, tNow, tCalls, tAborted>>
    /\ UNCHANGED notTimedVars

\* the inference call settles; if the race is still open getEmbedding settles
\* with it, and retrieveChunks goes on to the strict search
InferenceSettles(outcome) ==
    /\ tCalls["hf"] = "inflight"
    /\ IF tGet # "pending"
       THEN /\ tCalls' = [tCalls EXCEPT !["hf"] = outcome]
            /\ UNCHANGED <<tpc, tTimers, tGet, tErr>>
       ELSE IF outcome = "resolved"
       THEN /\ tpc' = "strict"
            /\ tGet' = "resolved"
            /\ tCalls' = [tCalls EXCEPT !["hf"] = outcome, !["rpc"] = "inflight"]
            /\ tTimers' = [tTimers EXCEPT !["abort"] = clearTimeout(@),
                                          !["rpc"] = setTimeout(RPC_TIMEOUT_MS)]
            /\ tErr' = tErr
       ELSE /\ EmbeddingFails(ServiceError)
            /\ tCalls' = [tCalls EXCEPT !["hf"] = outcome]
            /\ tTimers' = [tTimers EXCEPT !["abort"] = clearTimeout(@)]
    /\ UNCHANGED <<tTimeout, tNow, tAborted>>
    /\ UNCHANGED notTimedVars

\* withTimeoutPromise's timer: reject(new Error(errorMsg))
RpcTimerFires ==
    /\ FiresNext("rpc")
    /\ tTimers' = [tTimers EXCEPT !["rpc"] = Fired(@)]
    /\ tpc' = "threw"
    /\ tErr' = RetrievalCatch(StrictCatch(RpcTimeout))
    /\ UNCHANGED <<tTimeout, tNow, tCalls, tAborted, tGet>>
    /\ UNCHANGED notTimedVars

\* the vector search settles: p.then / .catch of withTimeoutPromise
SearchSettles(outcome) ==
    /\ tCalls["rpc"] = "inflight"
    /\ tCalls' = [tCalls EXCEPT !["rpc"] = outcome]
    /\ IF tTimers["rpc"].state = "armed"
       THEN /\ tTimers' = [tTimers EXCEPT !["rpc"] = clearTimeout(@)]
            /\ IF outcome = "resolved"
               THEN /\ tpc' = "returned"
                    /\ tErr' = tErr
               ELSE /\ tpc' = "threw"
                    /\ tErr' = RetrievalCatch(StrictCatch(RpcError))
       ELSE UNCHANGED <<tpc, tTimers, tErr>>
    /\ UNCHANGED <<tTimeout, tNow, tAborted, tGet>>
    /\ UNCHANGED notTimedVars

\* a second passes while a timer is set or a call is in flight
Tick ==
    /\ tNow < MaxTimeMs
    /\ \A t \in DOMAIN tTimers : ~Due(t)
    /\ \/ \E t \in DOMAIN tTimers : tTimers[t].state = "armed"
       \/ \E c \in DOMAIN tCalls : tCalls[c] = "inflight"
    /\ tNow' = tNow + 1000
    /\ UNCHANGED <<tpc, tTimeout, tTimers, tCalls, tAborted, tGet, tErr>>
    /\ UNCHANGED notTimedVars

CallOutcomes == {"resolved", "rejected"}

TimedNext ==
    \/ retrieveChunks_Call
    \/ AbortTimerFires
    \/ RaceTimerFires
    \/ \E o \in CallOutcomes : InferenceSettles(o)
    \/ RpcTimerFires
    \/ \E o \in CallOutcomes : SearchSettles(o)
    \/ Tick

TimedSpec == TimedInit /\ [][TimedNext]_vars

-----------------------------------------------------------------------------
(* Properties of the timed calls *)

\* C31: once the abort signal of the query embedding has fired while the
\* inference call was in flight, the single-embedding call has settled with
\* an error: it waits neither for the service nor for its own timer.
C31_AbortSettlesCall ==
    tAborted => tGet = "rejected"

\* C32: when the query embedding timed out or was aborted, the error that
\* retrieveChunks throws differs, in name or message, from the error it
\* throws for a failure of the embedding service.
C32_TimeoutErrorIsTyped ==
    (tpc = "threw" /\ tErr.cause = "embedTimeout") =>
        Surface(tErr) # Surface(RetrievalCatch(EmbeddingCatch(withTimeoutCatch(ServiceError))))

\* C33: once the caller has seen the timeout error of a timed call the
\* underlying call is no longer in flight, and once an underlying call has
\* settled its timer is no longer set.
C33_NoResourceOutlivesCall ==
    /\ (tpc = "threw" /\ tErr.cause = "embedTimeout") => tCalls["hf"] # "inflight"
    /\ (tpc = "threw" /\ tErr.cause = "rpcTimeout") => tCalls["rpc"] # "inflight"
    /\ tCalls["hf"] \in CallOutcomes => tTimers["inner"].state # "armed"
    /\ tCalls["rpc"] \in CallOutcomes => tTimers["rpc"].state # "armed"

====
